---- MODULE Spec2Model ----
(***************************************************************************)
(* A model of the git-less deployment core of smithery-deploy:             *)
(* cloneRepository, checkRepoExists, createGitHubRepo, pushToGitHub,       *)
(* collectFiles, cleanupTempDir and deployFromGit                          *)
(* (tools/smithery-deploy/src/git-deploy.ts), together with the hosting    *)
(* service and the local file system they act on.                          *)
(*                                                                         *)
(* One action is one hosting-service call together with the synchronous    *)
(* code that follows it up to the next call.  Every call has three         *)
(* outcomes: an OK response, a non-OK response, or a transport error       *)
(* (fetch rejects, which the code sees as an exception).                   *)
(***************************************************************************)
EXTENDS Integers, Sequences, FiniteSets, TLC

\* ------------------------------------------------------------------ data

\* Bound: how many times deployFromGit is called in succession in SpecRetry.
MaxAttempts == 2
\* Bound: how many scratch directory names mkdtempSync may hand out.
MaxDirs == 2

\* The processes that may run a deployment.
ProcIds == {1, 2}
DirNames == 1..MaxDirs

\* Repository-relative paths (path.relative results) and their segments.
Paths == {"README.md", "smithery.yaml", "node_modules/dep.js", ".DS_Store",
          "src/index.ts", "src/dist/out.js", "CHANGELOG.md"}

Segments(f) ==
  CASE f = "README.md" -> <<"README.md">>
    [] f = "smithery.yaml" -> <<"smithery.yaml">>
    [] f = "node_modules/dep.js" -> <<"node_modules", "dep.js">>
    [] f = ".DS_Store" -> <<".DS_Store">>
    [] f = "src/index.ts" -> <<"src", "index.ts">>
    [] f = "src/dist/out.js" -> <<"src", "dist", "out.js">>
    [] f = "CHANGELOG.md" -> <<"CHANGELOG.md">>

\* The order in which readdirSync lists the entries.
PathOrder == <<".DS_Store", "CHANGELOG.md", "README.md", "node_modules/dep.js",
               "smithery.yaml", "src/dist/out.js", "src/index.ts">>

\* File contents; NoFile marks a path with no file.
NoFile == "ENOENT"
\* What stands at a path that holds a symbolic link instead of a file.
Symlink == "symlink"
Contents == {"init", "old", "new"}
NoFiles == [f \in Paths |-> NoFile]

Branches == {"main", "master", "dev"}
NoRefs == [b \in Branches |-> 0]

\* ------------------------------------------------------------- variables

VARIABLES
  \* the caller's arguments, fixed for the run
  entry,           \* the orchestrator called: "api" is deployFromGit of the
                   \* git-less module, "git" deployFromGit of the module that
                   \* runs the git binary, "tool" the deploy_from_git handler
  opts,            \* GitDeployOptions
  generatedFiles,  \* GeneratedFiles: a sequence of [name, content] entries
  \* the hosting service
  srcRepo,         \* the source repository: [default_branch, files]
  repoExists,      \* whether targetOwner/targetRepo exists
  refs,            \* target repository: branch -> commit id, 0 when absent
  commits,         \* target repository: commit id -> [tree, parents]
  trees,           \* target repository: the tree objects created
  blobs,           \* target repository: the blob objects created
  \* the local file system under os.tmpdir()
  fs,              \* directory name -> [exists, files]
  \* one deployFromGit call per process
  procs,           \* the processes that run
  attempt,         \* how many calls the process has started
  pc,              \* where the process stands
  clone,           \* cloneRepository's locals: [tempDir, targetBranch]
  tempDir,         \* deployFromGit's tempDir, 0 when undefined
  filesGenerated,
  filesSkipped,
  push,            \* pushToGitHub's locals and its returned value
  result,          \* what deployFromGit hands its caller
  cleanup,         \* how the finally block's removal went: "", "removed", "failed"
  outcomes,        \* the success flags of the process's earlier calls
  calls            \* the hosting-service calls issued by the current call

hostVars == <<srcRepo, repoExists, refs, commits, trees, blobs>>
inputVars == <<entry, opts, generatedFiles, procs>>
localVars == <<clone, tempDir, filesGenerated, filesSkipped, push, cleanup, outcomes>>
vars == <<entry, opts, generatedFiles, srcRepo, repoExists, refs, commits, trees, blobs,
          fs, procs, attempt, pc, clone, tempDir, filesGenerated, filesSkipped,
          push, result, cleanup, outcomes, calls>>

\* ------------------------------------------------------------- messages

\* An error message is a sequence of string pieces; it is empty when every
\* piece is the empty string.
IsEmptyMsg(m) == \A i \in DOMAIN m : m[i] = ""

\* The message of the exception a rejected fetch raises.
FetchFailedMsg == <<"fetch failed">>
\* The body GitHub sends with a non-OK response.
ErrorBody == "Not Found"

Call(op, arg, res) == [op |-> op, arg |-> arg, res |-> res]
Log(p, c) == [calls EXCEPT ![p] = Append(@, c)]
Log2(p, c, d) == [calls EXCEPT ![p] = Append(Append(@, c), d)]

\* ------------------------------------------------------- pure functions

\* A URL is the sequence of its pieces: a piece is one of the substrings the
\* patterns of parseGitUrl name ("github.com", "git@", ".git", "/", ":"), or
\* a run of other characters that holds none of them.
GoodUrl == <<"https:", "/", "/", "github.com", "/", "acme", "/", "widget", ".git">>
BadUrl == <<"https:", "/", "/", "example.com", "/", "acme", "/", "widget">>

\* What parseGitUrl returns for null.
Null == [matched |-> FALSE, owner |-> << >>, repo |-> << >>]

\* The three regular expressions, in the order they are tried: the literal
\* text a match starts with, the characters allowed after it, and whether the
\* pattern ends in (\.git)?$ or in $.
patterns ==
  << [lead |-> <<"github.com">>, sep |-> {"/", ":"}, git |-> TRUE],
     [lead |-> <<"git@", "github.com">>, sep |-> {":"}, git |-> TRUE],
     [lead |-> <<"github.com">>, sep |-> {"/"}, git |-> FALSE] >>

Slashes(s) == {j \in DOMAIN s : s[j] = "/"}

\* replace(/\.git$/, "")
StripGit(s) ==
  IF Len(s) > 0 /\ s[Len(s)] = ".git" THEN SubSeq(s, 1, Len(s) - 1) ELSE s

\* What follows the lead and the separator of a match that starts at i.
AfterLead(url, pat, i) == SubSeq(url, i + Len(pat.lead) + 1, Len(url))

\* Whether the pattern matches from position i to the end of the URL:
\* ([^/]+) runs to the first slash, ([^/]+?) takes what follows it, which is
\* not empty and holds no slash.
MatchAt(url, pat, i) ==
  LET n == Len(pat.lead)
      rest == AfterLead(url, pat, i)
  IN /\ i + n <= Len(url)
     /\ SubSeq(url, i, i + n - 1) = pat.lead
     /\ url[i + n] \in pat.sep
     /\ Slashes(rest) # {}
     /\ LET k == CHOOSE j \in Slashes(rest) : \A m \in Slashes(rest) : j <= m
        IN /\ k >= 2
           /\ k < Len(rest)
           /\ Slashes(SubSeq(rest, k + 1, Len(rest))) = {}

\* match[1] and match[2] of the match that starts at i; the lazy group leaves
\* a final .git to (\.git)? when something is left for itself.
Groups(url, pat, i) ==
  LET rest == AfterLead(url, pat, i)
      k == CHOOSE j \in Slashes(rest) : \A m \in Slashes(rest) : j <= m
      tail == SubSeq(rest, k + 1, Len(rest))
  IN [owner |-> SubSeq(rest, 1, k - 1),
      repo |-> IF pat.git /\ Len(tail) >= 2 /\ tail[Len(tail)] = ".git"
                 THEN SubSeq(tail, 1, Len(tail) - 1) ELSE tail]

\* url.match(pattern): the leftmost position the pattern matches at, 0 if none.
Match(url, pat) ==
  LET at == {i \in DOMAIN url : MatchAt(url, pat, i)}
  IN IF at = {} THEN 0 ELSE CHOOSE i \in at : \A j \in at : i <= j

\* parseGitUrl: the groups of the first pattern that matches, null if none does.
parseGitUrl(url) ==
  LET hit == {n \in DOMAIN patterns : Match(url, patterns[n]) # 0}
  IN IF hit = {} THEN Null
     ELSE LET n == CHOOSE m \in hit : \A j \in hit : m <= j
              g == Groups(url, patterns[n], Match(url, patterns[n]))
          IN [matched |-> TRUE, owner |-> g.owner, repo |-> StripGit(g.repo)]

skipDirs == {".git", "node_modules", "__pycache__", ".venv", "venv",
             ".pytest_cache", "dist", ".next", "coverage"}
skipFiles == {".DS_Store", "Thumbs.db"}

\* A loop that looks for a skipped directory name at the top level only.
CollectedSkippingAtRootOnly(f) ==
  LET s == Segments(f)
  IN /\ (Len(s) > 1 => s[1] \notin skipDirs)
     /\ s[Len(s)] \notin skipFiles

\* Whether collectFiles reaches path f and keeps it: none of its directories
\* is skipped, and its file name is not skipped.
Collected(f) ==
  LET s == Segments(f)
  IN /\ \A i \in 1..(Len(s) - 1) : s[i] \notin skipDirs
     /\ s[Len(s)] \notin skipFiles

\* entry.isFile() of the directory entry at a path with content c.
isFile(c) == c \notin {NoFile, Symlink}

\* A collectFiles that skips nothing.
collectEverything(files) ==
  SelectSeq(PathOrder, LAMBDA f : files[f] # NoFile)

\* collectFiles: the relative paths of the files of a directory, in listing order.
collectFiles(files) ==
  SelectSeq(PathOrder, LAMBDA f : isFile(files[f]) /\ Collected(f))

\* content.toString("base64"), and what the service stores for a blob body.
ToBase64(content) == <<"base64", content>>
FromBase64(encoded) == encoded[2]
\* A blob body that sends the base64 text and declares it utf-8.
BlobBodyUtf8(content) == [content |-> ToBase64(content), encoding |-> "utf-8"]

BlobBody(content) == [content |-> ToBase64(content), encoding |-> "base64"]
StoredBlob(body) ==
  IF body.encoding = "base64" THEN FromBase64(body.content) ELSE "garbled"

\* A blob's id is determined by its content, a tree's id by its entries.
TreeItem(f, sha) == [path |-> f, mode |-> "100644", type |-> "blob", sha |-> sha]

\* The tree the service builds from base_tree and the listed entries: a listed
\* path takes the listed blob, any other path is inherited from the base.
ApplyTree(base, items) ==
  [f \in Paths |->
     IF \E i \in DOMAIN items : items[i].path = f
       THEN items[CHOOSE i \in DOMAIN items :
                    /\ items[i].path = f
                    /\ \A j \in DOMAIN items : items[j].path = f => j <= i].sha
       ELSE base[f]]

\* ------------------------------------------------------------ the inputs

targetOwner == "acme"
targetRepo == "widget-mcp"

Entry(name, content) == [name |-> name, content |-> content]

\* The generated file sets a caller may pass; an entry with content "" is one
\* the generator left empty.
FileSets ==
  { << >>,
    <<Entry("smithery.yaml", "new"), Entry("README.md", "")>>,
    <<Entry("README.md", "new"), Entry("smithery.yaml", "new")>> }

\* What the source repository may hold on its default branch.
SourceSnapshots ==
  { NoFiles,
    [NoFiles EXCEPT !["README.md"] = "init"],
    [NoFiles EXCEPT !["README.md"] = "init", !["smithery.yaml"] = "old",
                    !["node_modules/dep.js"] = "old", ![".DS_Store"] = "old"] }

\* The target repository before the run: two commits, the second on top of the
\* first, and the branches that point at them.
Tree1 == [NoFiles EXCEPT !["README.md"] = "init"]
Tree2 == [NoFiles EXCEPT !["README.md"] = "init", !["smithery.yaml"] = "old"]
Commit(tree, parents, message) ==
  [tree |-> tree, parents |-> parents, message |-> message]
InitCommits == <<Commit(Tree1, << >>, "Initial commit"),
                 Commit(Tree2, <<1>>, "Add config")>>

TargetStates ==
  { [exists |-> FALSE, refs |-> NoRefs],
    [exists |-> TRUE, refs |-> NoRefs],
    [exists |-> TRUE, refs |-> [NoRefs EXCEPT !["main"] = 1]],
    [exists |-> TRUE, refs |-> [NoRefs EXCEPT !["master"] = 1]],
    [exists |-> TRUE, refs |-> [NoRefs EXCEPT !["main"] = 1, !["dev"] = 2]],
    [exists |-> TRUE, refs |-> [NoRefs EXCEPT !["main"] = 1, !["master"] = 2]] }

NoDir == [exists |-> FALSE, files |-> NoFiles]
NoClone ==
  [parsed |-> Null, tempDir |-> 0, targetBranch |-> "", outcome |-> "", rm |-> ""]
NoPush ==
  [started |-> FALSE, baseSha |-> 0, baseTreeSha |-> NoFiles,
   filesToUpload |-> << >>, treeItems |-> << >>, treeSha |-> NoFiles,
   newCommitSha |-> 0, startRefs |-> NoRefs,
   returned |-> FALSE, success |-> FALSE, error |-> << >>]
NoResult ==
  [threw |-> FALSE, success |-> FALSE, tempDir |-> 0, filesGenerated |-> << >>,
   filesSkipped |-> << >>, deploymentUrl |-> << >>, error |-> << >>]

Options(urls, sourceBranches, targetBranches, flags) ==
  [sourceRepoUrl : urls, sourceBranch : sourceBranches, githubToken : {"ghp_token"},
   targetBranch : targetBranches, createIfNotExists : flags, force : flags]

\* The runs that vary the source side: the URL, the branch asked for and the
\* source's default branch, against one target.
CloneCases ==
  [entry : {"api"},
   opts : Options({GoodUrl, BadUrl}, {"", "main"}, {"main"}, {TRUE}),
   generatedFiles : {<<Entry("smithery.yaml", "new")>>},
   srcRepo : [default_branch : {"main", "dev"},
              files : {[NoFiles EXCEPT !["README.md"] = "init"]}],
   target : {[exists |-> TRUE, refs |-> [NoRefs EXCEPT !["main"] = 1]]}]

\* The runs that vary the target side: the file set, the source's files, the
\* target repository and branch, and the two flags.
DeployCases ==
  [entry : {"api"},
   opts : Options({GoodUrl}, {"main"}, {"main", "dev"}, BOOLEAN),
   generatedFiles : FileSets,
   srcRepo : [default_branch : {"main"}, files : SourceSnapshots],
   target : TargetStates]

\* The two calls in succession are run on these.
RetryCases ==
  [entry : {"api"},
   opts : Options({GoodUrl}, {""}, {"dev"}, {TRUE}) \cup
          Options({GoodUrl}, {"main"}, {"main"}, BOOLEAN),
   generatedFiles : {<<Entry("README.md", "new"), Entry("smithery.yaml", "new")>>},
   srcRepo : [default_branch : {"main"},
              files : {[NoFiles EXCEPT !["smithery.yaml"] = "old"]}],
   target : {[exists |-> FALSE, refs |-> NoRefs],
             [exists |-> TRUE, refs |-> [NoRefs EXCEPT !["main"] = 1]]}]

\* The runs of the orchestrators that drive the git binary: deployFromGit of
\* that module, and the deploy_from_git tool, which reads its token from the
\* environment.
GitCases ==
  [entry : {"git", "tool"},
   opts : Options({GoodUrl, BadUrl}, {""}, {"main"}, BOOLEAN),
   generatedFiles : {<<Entry("smithery.yaml", "new")>>},
   srcRepo : [default_branch : {"main"},
              files : {[NoFiles EXCEPT !["README.md"] = "init"]}],
   target : {[exists |-> FALSE, refs |-> NoRefs],
             [exists |-> TRUE, refs |-> [NoRefs EXCEPT !["main"] = 1]]}]
  \cup
  [entry : {"tool"},
   opts : {[sourceRepoUrl |-> GoodUrl, sourceBranch |-> "", githubToken |-> "",
            targetBranch |-> "main", createIfNotExists |-> TRUE, force |-> FALSE]},
   generatedFiles : {<<Entry("smithery.yaml", "new")>>},
   srcRepo : [default_branch : {"main"},
              files : {[NoFiles EXCEPT !["README.md"] = "init"]}],
   target : {[exists |-> TRUE, refs |-> [NoRefs EXCEPT !["main"] = 1]]}]

\* The end-to-end scenarios: a file set of one file, overwriting off, against
\* a target that does not exist yet or holds a README.md, from sources with
\* and without a README.md and with a source file of their own.
ScenarioCases ==
  [entry : {"api"},
   opts : {[sourceRepoUrl |-> GoodUrl, sourceBranch |-> "main",
            githubToken |-> "ghp_token", targetBranch |-> "main",
            createIfNotExists |-> TRUE, force |-> FALSE]},
   generatedFiles : {<<Entry("README.md", "new")>>, <<Entry("smithery.yaml", "new")>>},
   srcRepo : [default_branch : {"main"},
              files : {NoFiles,
                       [NoFiles EXCEPT !["src/index.ts"] = "old"],
                       [NoFiles EXCEPT !["README.md"] = "old",
                                       !["src/index.ts"] = "old"]}],
   target : {[exists |-> FALSE, refs |-> NoRefs],
             [exists |-> TRUE, refs |-> [NoRefs EXCEPT !["main"] = 1]]}]

\* The runs that vary what the fetched source holds below its root: files in
\* skipped directories at the top level and deeper, a noise file, a symbolic
\* link, and a file set with an entry the source already has and an empty one.
EnumerationCases ==
  [entry : {"api"},
   opts : Options({GoodUrl}, {"main"}, {"main"}, BOOLEAN),
   generatedFiles : {<<Entry("smithery.yaml", "new"), Entry("README.md", "")>>,
                     <<Entry("README.md", "")>>},
   srcRepo : [default_branch : {"main"},
              files : {[NoFiles EXCEPT !["README.md"] = "init",
                                       !["smithery.yaml"] = "old",
                                       !["src/index.ts"] = "old",
                                       !["src/dist/out.js"] = "old",
                                       !["node_modules/dep.js"] = "old",
                                       ![".DS_Store"] = "old",
                                       !["CHANGELOG.md"] = Symlink],
                       [NoFiles EXCEPT !["src/dist/out.js"] = "old",
                                       !["CHANGELOG.md"] = Symlink]}],
   target : {[exists |-> TRUE, refs |-> [NoRefs EXCEPT !["main"] = 1]]}]

InitWith(ps, cases) ==
  /\ \E c \in cases :
       /\ entry = c.entry
       /\ opts = c.opts
       /\ generatedFiles = c.generatedFiles
       /\ srcRepo = c.srcRepo
       /\ repoExists = c.target.exists
       /\ refs = c.target.refs
       /\ commits = IF c.target.refs = NoRefs THEN << >> ELSE InitCommits
       /\ trees = IF c.target.refs = NoRefs THEN {} ELSE {Tree1, Tree2}
       /\ blobs = IF c.target.refs = NoRefs THEN {} ELSE {"init", "old"}
  /\ fs = [d \in DirNames |-> NoDir]
  /\ procs = ps
  /\ attempt = [p \in ProcIds |-> IF p \in ps THEN 1 ELSE 0]
  /\ pc = [p \in ProcIds |->
             IF p \notin ps THEN "idle"
             ELSE IF entry = "tool" THEN "validate" ELSE "clone"]
  /\ clone = [p \in ProcIds |-> NoClone]
  /\ tempDir = [p \in ProcIds |-> 0]
  /\ filesGenerated = [p \in ProcIds |-> << >>]
  /\ filesSkipped = [p \in ProcIds |-> << >>]
  /\ push = [p \in ProcIds |-> NoPush]
  /\ result = [p \in ProcIds |-> NoResult]
  /\ cleanup = [p \in ProcIds |-> ""]
  /\ outcomes = [p \in ProcIds |-> << >>]
  /\ calls = [p \in ProcIds |-> << >>]

Init ==
  InitWith({1}, CloneCases \cup DeployCases \cup GitCases \cup ScenarioCases
                \cup EnumerationCases)

InitRetry == InitWith({1}, RetryCases)

\* Two calls of deployFromGit at the same time, with the same arguments,
\* against the same target branch.
ConcurrentCases ==
  [entry : {"api"},
   opts : {[sourceRepoUrl |-> GoodUrl, sourceBranch |-> "",
            githubToken |-> "ghp_token", targetBranch |-> "main",
            createIfNotExists |-> TRUE, force |-> TRUE]},
   generatedFiles : {<<Entry("smithery.yaml", "new")>>},
   srcRepo : [default_branch : {"main"},
              files : {[NoFiles EXCEPT !["README.md"] = "init"]}],
   target : {[exists |-> TRUE, refs |-> [NoRefs EXCEPT !["main"] = 1]]}]

InitConcurrent == InitWith(ProcIds, ConcurrentCases)

\* The URLs parseGitUrl is run on: an optional scheme or user, text before
\* the host, the host, a separator, the owner, the repository and what may
\* follow it, each present or absent.
UrlInputs ==
  {lead \o host \o sep \o owner \o mid \o repo \o trail :
     lead \in {<< >>, <<"https:", "/", "/">>, <<"git@">>,
               <<"https:", "/", "/", "not">>,
               <<"https:", "/", "/", "example.com", "/">>},
     host \in {<<"github.com">>, <<"example.com">>},
     sep \in {<<"/">>, <<":">>},
     owner \in {<<"acme">>, << >>},
     mid \in {<<"/">>, << >>},
     repo \in {<<"widget">>, <<"widget", ".", "js">>, <<".git">>, << >>},
     trail \in {<< >>, <<".git">>, <<"/">>, <<"/", "tree">>}}

\* The runs that vary the source URL only.
UrlCases ==
  [entry : {"api"},
   opts : Options(UrlInputs, {"", "main"}, {"main"}, {TRUE}),
   generatedFiles : {<<Entry("smithery.yaml", "new")>>},
   srcRepo : [default_branch : {"main"},
              files : {[NoFiles EXCEPT !["README.md"] = "init"]}],
   target : {[exists |-> TRUE, refs |-> [NoRefs EXCEPT !["main"] = 1]]}]

InitParse == InitWith({1}, UrlCases)

\* ------------------------------------------------------- deployFromGit

\* The order of the steps: deployFromGit checks the target repository before
\* it writes the files, the tool writes the files first.
PushPc == IF entry = "api" THEN "getRef" ELSE "gitPush"
\* An orchestrator that writes the files right after the fetch.
WriteFirst == "materialize"
AfterClone == IF entry = "tool" THEN "materialize" ELSE "checkRepo"
AfterGate == IF entry = "tool" THEN PushPc ELSE "materialize"
AfterFiles == IF entry = "tool" THEN "checkRepo" ELSE PushPc

\* A catch block that rethrows instead of building an outcome.
Rethrow(msg) ==
  [threw |-> TRUE, success |-> FALSE, tempDir |-> 0, filesGenerated |-> << >>,
   filesSkipped |-> << >>, deploymentUrl |-> << >>, error |-> msg]

\* The outcome deployFromGit's catch block builds from a caught exception.
CatchOutcome(msg) ==
  [threw |-> FALSE, success |-> FALSE, tempDir |-> 0, filesGenerated |-> << >>,
   filesSkipped |-> << >>, deploymentUrl |-> << >>, error |-> msg]

\* An error result of the deploy_from_git tool.
ToolError(msg) ==
  [threw |-> FALSE, success |-> FALSE, tempDir |-> 0, filesGenerated |-> << >>,
   filesSkipped |-> << >>, deploymentUrl |-> << >>, error |-> msg]

\* The catch block of the orchestrator that runs.
Caught(msg) ==
  IF entry = "tool" THEN ToolError(<<"Deployment failed: ">> \o msg)
  ELSE CatchOutcome(msg)

\* A removal that empties the directory and leaves the directory itself.
rmContentsOnly(files, d, removed) ==
  IF removed THEN [files EXCEPT ![d].files = NoFiles] ELSE files

\* fs.rmSync(dir, {recursive, force}) inside try/catch: the directory is gone
\* when the removal works; an error of the removal is swallowed.
rmSync(files, d, removed) ==
  IF removed THEN [files EXCEPT ![d] = NoDir] ELSE files

\* --------------------------------------------------------- cloneRepository

\* A mkdtempSync that hands out the same name every time.
mkdtempFixedName(files) == {1}

\* fs.mkdtempSync(prefix): the names it may return, none of which exists yet
\* (the first free one of the names of the model).
mkdtempSync(files) ==
  {d \in DirNames : /\ ~files[d].exists
                    /\ \A e \in DirNames : ~files[e].exists => d <= e}

\* cloneRepository's catch block: remove the scratch directory, rethrow; the
\* exception lands in deployFromGit's catch block, with tempDir still undefined.
CloneFail(p, msg, files) ==
  /\ \E removed \in BOOLEAN :
       /\ fs' = rmSync(files, clone[p].tempDir, removed)
       /\ clone' = [clone EXCEPT ![p].outcome = "threw",
                                 ![p].rm = IF removed THEN "removed" ELSE "failed"]
  /\ result' = [result EXCEPT ![p] =
                  Caught(<<"Failed to download repository: ">> \o msg)]
  /\ pc' = [pc EXCEPT ![p] = "finally"]

\* The message of the error cloneRepository throws on a URL that does not parse.
InvalidUrlMsg(url) ==
  <<"Invalid GitHub URL: ">> \o url \o <<". Only GitHub repositories are supported.">>

\* parseGitUrl, then mkdtempSync.
CloneStart(p) ==
  /\ pc[p] = "clone"
  /\ entry = "api"
  /\ IF parseGitUrl(opts.sourceRepoUrl) = Null
       THEN /\ result' = [result EXCEPT ![p] =
                 CatchOutcome(InvalidUrlMsg(opts.sourceRepoUrl))]
            /\ clone' = [clone EXCEPT ![p].outcome = "threw"]
            /\ pc' = [pc EXCEPT ![p] = "finally"]
            /\ UNCHANGED fs
       ELSE \E d \in mkdtempSync(fs) :
              /\ fs' = [fs EXCEPT ![d] = [exists |-> TRUE, files |-> NoFiles]]
              /\ clone' = [clone EXCEPT ![p] =
                   [parsed |-> parseGitUrl(opts.sourceRepoUrl), tempDir |-> d,
                    targetBranch |-> opts.sourceBranch, outcome |-> "", rm |-> ""]]
              /\ pc' = [pc EXCEPT ![p] =
                   IF opts.sourceBranch = "" THEN "repoInfo" ELSE "download"]
              /\ UNCHANGED result
  /\ UNCHANGED <<hostVars, inputVars, attempt, tempDir, filesGenerated,
                 filesSkipped, push, cleanup, outcomes, calls>>

\* getRepoInfo: the default branch of the source, "main" on a non-OK response.
GetRepoInfo(p) ==
  /\ pc[p] = "repoInfo"
  /\ \E res \in {"ok", "notok", "throw"} :
       /\ calls' = Log(p, Call("getRepoInfo", "", res))
       /\ IF res = "throw"
            THEN CloneFail(p, FetchFailedMsg, fs)
            ELSE /\ clone' = [clone EXCEPT ![p].targetBranch =
                      IF res = "ok" /\ srcRepo.default_branch # ""
                        THEN srcRepo.default_branch ELSE "main"]
                 /\ pc' = [pc EXCEPT ![p] = "download"]
                 /\ UNCHANGED <<fs, result>>
  /\ UNCHANGED <<hostVars, inputVars, attempt, tempDir, filesGenerated,
                 filesSkipped, push, cleanup, outcomes>>

\* The tarball download and its extraction into the scratch directory.
Download(p) ==
  /\ pc[p] = "download"
  /\ LET d == clone[p].tempDir
         found == clone[p].targetBranch = srcRepo.default_branch
     IN \/ /\ calls' = Log(p, Call("tarball", clone[p].targetBranch, "throw"))
           /\ CloneFail(p, FetchFailedMsg, fs)
           /\ UNCHANGED tempDir
        \/ /\ calls' = Log(p, Call("tarball", clone[p].targetBranch, "notok"))
           /\ CloneFail(p, <<"Failed to download repository: ", ErrorBody>>, fs)
           /\ UNCHANGED tempDir
        \/ /\ found
           /\ calls' = Log(p, Call("tarball", clone[p].targetBranch, "ok"))
           /\ \/ /\ CloneFail(p, <<"No response body received from GitHub API">>, fs)
                 /\ UNCHANGED tempDir
              \/ \E part \in {NoFiles, srcRepo.files} :
                   /\ CloneFail(p, <<"TAR_BAD_ARCHIVE">>,
                                [fs EXCEPT ![d].files = part])
                   /\ UNCHANGED tempDir
              \/ /\ fs' = [fs EXCEPT ![d].files = srcRepo.files]
                 /\ clone' = [clone EXCEPT ![p].outcome = "returned"]
                 /\ tempDir' = [tempDir EXCEPT ![p] = d]
                 /\ pc' = [pc EXCEPT ![p] = AfterClone]
                 /\ UNCHANGED result
  /\ UNCHANGED <<hostVars, inputVars, attempt, filesGenerated, filesSkipped, push,
                 cleanup, outcomes>>

\* cloneRepository of the module that runs the git binary: mkdtempSync, then
\* git clone --depth 1; any failure removes the directory and rethrows.
GitClone(p) ==
  /\ pc[p] = "clone"
  /\ entry \in {"git", "tool"}
  /\ \E d \in mkdtempSync(fs) :
       /\ LET made == [fs EXCEPT ![d] = [exists |-> TRUE, files |-> NoFiles]]
              cloneable == /\ parseGitUrl(opts.sourceRepoUrl) # Null
                           /\ opts.sourceBranch \in {"", srcRepo.default_branch}
          IN \/ /\ calls' = Log(p, Call("gitClone", opts.sourceRepoUrl, "throw"))
                /\ \E removed \in BOOLEAN :
                     /\ fs' = rmSync(made, d, removed)
                     /\ clone' = [clone EXCEPT ![p] =
                          [parsed |-> Null, tempDir |-> d,
                           targetBranch |-> opts.sourceBranch, outcome |-> "threw",
                           rm |-> IF removed THEN "removed" ELSE "failed"]]
                /\ result' = [result EXCEPT ![p] =
                     Caught(<<"Failed to clone repository: ", "Command failed">>)]
                /\ pc' = [pc EXCEPT ![p] = "finally"]
                /\ UNCHANGED tempDir
             \/ /\ cloneable
                /\ calls' = Log(p, Call("gitClone", opts.sourceRepoUrl, "ok"))
                /\ fs' = [made EXCEPT ![d].files = srcRepo.files]
                /\ clone' = [clone EXCEPT ![p] =
                     [parsed |-> Null, tempDir |-> d,
                      targetBranch |-> srcRepo.default_branch,
                      outcome |-> "returned", rm |-> ""]]
                /\ tempDir' = [tempDir EXCEPT ![p] = d]
                /\ pc' = [pc EXCEPT ![p] = AfterClone]
                /\ UNCHANGED result
  /\ UNCHANGED <<hostVars, inputVars, attempt, filesGenerated, filesSkipped, push,
                 cleanup, outcomes>>

\* A validateGitHubToken that does not look at response.ok.
validateGitHubTokenAnyAnswer(res, login) ==
  [valid |-> res # "throw", username |-> login,
   error |-> IF res = "throw" THEN FetchFailedMsg ELSE << >>]

\* validateGitHubToken: GET /user; valid with the login of an OK answer,
\* invalid after a non-OK answer or an error of the request.
validateGitHubToken(res, login) ==
  CASE res = "ok" -> [valid |-> TRUE, username |-> login, error |-> << >>]
    [] res = "notok" ->
         [valid |-> FALSE, username |-> "", error |-> <<"Invalid or expired token">>]
    [] res = "throw" -> [valid |-> FALSE, username |-> "", error |-> FetchFailedMsg]

\* The tool's first steps: the token from the environment, validateGitHubToken.
ToolValidate(p) ==
  /\ pc[p] = "validate"
  /\ IF opts.githubToken = ""
       THEN /\ result' = [result EXCEPT ![p] = ToolError(
                 <<"GitHub token is required. Set the GITHUB_TOKEN environment variable.">>)]
            /\ pc' = [pc EXCEPT ![p] = "done"]
            /\ UNCHANGED calls
       ELSE \E res \in {"ok", "notok", "throw"}, login \in {targetOwner, "someone-else"} :
              LET tokenValidation == validateGitHubToken(res, login)
              IN /\ res # "ok" => login = targetOwner
                 /\ calls' = Log(p, Call("validateToken",
                                         IF res = "ok" THEN login ELSE "", res))
                 /\ IF tokenValidation.valid
                      THEN /\ pc' = [pc EXCEPT ![p] = "clone"]
                           /\ UNCHANGED result
                      ELSE /\ result' = [result EXCEPT ![p] = ToolError(
                                <<"Invalid GitHub token: ">> \o tokenValidation.error)]
                           /\ pc' = [pc EXCEPT ![p] = "finally"]
  /\ UNCHANGED <<hostVars, inputVars, fs, attempt, localVars>>

\* ------------------------------------------------ existence and creation

\* The outcome deployFromGit returns from inside its try block before any
\* file was written.
EarlyFailure(msg) ==
  [threw |-> FALSE, success |-> FALSE, tempDir |-> 0, filesGenerated |-> << >>,
   filesSkipped |-> << >>, deploymentUrl |-> << >>, error |-> msg]

\* A probe without its try/catch: a transport error escapes to the caller.
checkRepoExistsNoCatch(res) == [threw |-> res = "throw", value |-> res = "ok"]

\* checkRepoExists: response.ok, and false when the request raises.
checkRepoExists(res) == [threw |-> FALSE, value |-> res = "ok"]

\* The call of checkRepoExists, and the orchestrator's branch on its answer.
CheckRepoExists(p) ==
  /\ pc[p] = "checkRepo"
  /\ \E res \in {"ok", "notok", "throw"} :
       /\ res = "ok" => repoExists
       /\ calls' = Log(p, Call("getRepo", targetRepo, res))
       /\ IF checkRepoExists(res).threw
            THEN /\ result' = [result EXCEPT ![p] = Caught(FetchFailedMsg)]
                 /\ pc' = [pc EXCEPT ![p] = "finally"]
            ELSE IF checkRepoExists(res).value
            THEN /\ pc' = [pc EXCEPT ![p] = AfterGate]
                 /\ UNCHANGED result
            ELSE IF opts.createIfNotExists
              THEN /\ pc' = [pc EXCEPT ![p] = "getUser"]
                   /\ UNCHANGED result
              ELSE /\ result' = [result EXCEPT ![p] = EarlyFailure(
                        <<"Repository ", targetOwner, "/", targetRepo,
                          " does not exist and createIfNotExists is false">>)]
                   /\ pc' = [pc EXCEPT ![p] = "finally"]
  /\ UNCHANGED <<hostVars, inputVars, fs, attempt, localVars>>

\* createGitHubRepo, first call: who the token belongs to decides the endpoint.
GetUser(p) ==
  /\ pc[p] = "getUser"
  /\ \/ /\ calls' = Log(p, Call("getUser", "", "throw"))
        /\ result' = [result EXCEPT ![p] = EarlyFailure(
             <<"Failed to create repository: ">> \o FetchFailedMsg)]
        /\ pc' = [pc EXCEPT ![p] = "finally"]
     \/ \E login \in {targetOwner, "someone-else"} :
          /\ calls' = Log(p, Call("getUser", login, "ok"))
          /\ pc' = [pc EXCEPT ![p] =
               IF login = targetOwner THEN "postUserRepo" ELSE "postOrgRepo"]
          /\ UNCHANGED result
     \/ /\ calls' = Log(p, Call("getUser", "", "notok"))
        /\ pc' = [pc EXCEPT ![p] = "postOrgRepo"]
        /\ UNCHANGED result
  /\ UNCHANGED <<hostVars, inputVars, fs, attempt, localVars>>

\* A creation request that never asks for initialization.
AutoInitNever == FALSE

\* auto_init in the creation request: true in the git-less module.
AutoInit == entry = "api"

\* Whether the initial branch of a repository created with auto_init is
\* visible to the calls that follow the fixed wait of 2000 ms: the service
\* initializes the repository on its own schedule.
InitVisibleAfterWait == BOOLEAN

\* The service makes the initial branch of a repository created with
\* auto_init visible: the repository has its initial commit and no branch yet.
InitPropagates ==
  /\ repoExists /\ refs = NoRefs /\ commits # << >>
  /\ refs' = [refs EXCEPT !["main"] = 1]
  /\ UNCHANGED <<srcRepo, repoExists, commits, trees, blobs, inputVars, fs, attempt,
                 localVars, pc, result, calls>>

\* An orchestrator that does not look at createResult.success: after a
\* refused creation it goes on to the next step.
PostRepoIgnoringFailure(p) ==
  /\ pc[p] \in {"postUserRepo", "postOrgRepo"}
  /\ LET endpoint == IF pc[p] = "postUserRepo" THEN "/user/repos" ELSE "/orgs/repos"
     IN \E res \in {"ok", "notok", "throw"} :
          /\ res = "ok" => ~repoExists
          /\ calls' = Log(p, Call("createRepo", endpoint, res))
          /\ IF res = "ok"
               THEN /\ repoExists' = TRUE
                    /\ IF AutoInit
                         THEN /\ commits' = Append(commits,
                                   Commit(Tree1, << >>, "Initial commit"))
                              /\ refs' = [refs EXCEPT !["main"] = Len(commits) + 1]
                              /\ trees' = trees \cup {Tree1}
                              /\ blobs' = blobs \cup {"init"}
                         ELSE UNCHANGED <<commits, refs, trees, blobs>>
                    /\ pc' = [pc EXCEPT ![p] = AfterGate]
                    /\ UNCHANGED result
               ELSE /\ pc' = [pc EXCEPT ![p] = AfterGate]
                    /\ UNCHANGED result
                    /\ UNCHANGED <<repoExists, commits, refs, trees, blobs>>
  /\ UNCHANGED <<srcRepo, inputVars, fs, attempt, localVars>>

\* createGitHubRepo, second call: POST; with auto_init the new repository gets
\* an initial commit holding a README on main.
PostRepo(p) ==
  /\ pc[p] \in {"postUserRepo", "postOrgRepo"}
  /\ LET endpoint == IF pc[p] = "postUserRepo" THEN "/user/repos" ELSE "/orgs/repos"
     IN \E res \in {"ok", "notok", "throw"} :
          /\ res = "ok" => ~repoExists
          /\ calls' = Log(p, Call("createRepo", endpoint, res))
          /\ IF res = "ok"
               THEN /\ repoExists' = TRUE
                    /\ IF AutoInit
                         THEN /\ commits' = Append(commits,
                                   Commit(Tree1, << >>, "Initial commit"))
                              /\ \E visible \in InitVisibleAfterWait :
                                   refs' = IF visible
                                     THEN [refs EXCEPT !["main"] = Len(commits) + 1]
                                     ELSE refs
                              /\ trees' = trees \cup {Tree1}
                              /\ blobs' = blobs \cup {"init"}
                         ELSE UNCHANGED <<commits, refs, trees, blobs>>
                    /\ pc' = [pc EXCEPT ![p] = AfterGate]
                    /\ UNCHANGED result
               ELSE /\ result' = [result EXCEPT ![p] = EarlyFailure(
                         <<"Failed to create repository: ">> \o
                         (IF res = "notok" THEN <<ErrorBody>> ELSE FetchFailedMsg))]
                    /\ pc' = [pc EXCEPT ![p] = "finally"]
                    /\ UNCHANGED <<repoExists, commits, refs, trees, blobs>>
  /\ UNCHANGED <<srcRepo, inputVars, fs, attempt, localVars>>

\* ------------------------------------------------------- file materializer

\* The loop without its test of force: an entry whose path exists is
\* overwritten and recorded as generated.
RECURSIVE WriteEntriesOverwrite(_, _, _)
WriteEntriesOverwrite(files, entries, n) ==
  IF n = 0
    THEN [files |-> files, generated |-> << >>, skipped |-> << >>]
    ELSE LET st == WriteEntriesOverwrite(files, entries, n - 1)
             e == entries[n]
         IN IF e.content = ""
              THEN st
              ELSE [st EXCEPT !.files[e.name] = e.content,
                              !.generated = Append(@, e.name)]

\* The loop without its test of content: an empty entry is handled like any
\* other.
RECURSIVE WriteEntriesKeepingEmpty(_, _, _)
WriteEntriesKeepingEmpty(files, entries, n) ==
  IF n = 0
    THEN [files |-> files, generated |-> << >>, skipped |-> << >>]
    ELSE LET st == WriteEntriesKeepingEmpty(files, entries, n - 1)
             e == entries[n]
         IN IF st.files[e.name] # NoFile /\ ~opts.force
              THEN [st EXCEPT !.skipped = Append(@, e.name)]
              ELSE [st EXCEPT !.files[e.name] = e.content,
                              !.generated = Append(@, e.name)]

\* The for loop over Object.entries(generatedFiles), run over the first n
\* entries: the directory's files, and the two lists.
RECURSIVE WriteEntries(_, _, _)
WriteEntries(files, entries, n) ==
  IF n = 0
    THEN [files |-> files, generated |-> << >>, skipped |-> << >>]
    ELSE LET st == WriteEntries(files, entries, n - 1)
             e == entries[n]
         IN IF e.content = ""
              THEN st
              ELSE IF st.files[e.name] # NoFile /\ ~opts.force
                THEN [st EXCEPT !.skipped = Append(@, e.name)]
                ELSE [st EXCEPT !.files[e.name] = e.content,
                                !.generated = Append(@, e.name)]

\* Whether the loop calls writeFileSync for entry n.
Writes(files, entries, n) ==
  /\ entries[n].content # ""
  /\ ~(WriteEntries(files, entries, n - 1).files[entries[n].name] # NoFile
       /\ ~opts.force)

\* Step 3 of deployFromGit, step 5 of the tool: either every entry is handled,
\* or writeFileSync throws at some entry and the catch block builds the
\* outcome. The tool runs detectMcpServer first, which may throw as well.
Materialize(p) ==
  /\ pc[p] = "materialize"
  /\ LET d == tempDir[p]
         n == Len(generatedFiles)
     IN \/ LET st == WriteEntries(fs[d].files, generatedFiles, n)
           IN /\ fs' = [fs EXCEPT ![d].files = st.files]
              /\ filesGenerated' = [filesGenerated EXCEPT ![p] = st.generated]
              /\ filesSkipped' = [filesSkipped EXCEPT ![p] = st.skipped]
              /\ pc' = [pc EXCEPT ![p] = AfterFiles]
              /\ UNCHANGED result
        \/ /\ entry = "tool"
           /\ result' = [result EXCEPT ![p] =
                Caught(<<"EACCES: permission denied, scandir">>)]
           /\ pc' = [pc EXCEPT ![p] = "finally"]
           /\ UNCHANGED <<fs, filesGenerated, filesSkipped>>
        \/ \E k \in 1..n :
             /\ Writes(fs[d].files, generatedFiles, k)
             /\ LET st == WriteEntries(fs[d].files, generatedFiles, k - 1)
                IN /\ fs' = [fs EXCEPT ![d].files = st.files]
                   /\ filesGenerated' = [filesGenerated EXCEPT ![p] = st.generated]
                   /\ filesSkipped' = [filesSkipped EXCEPT ![p] = st.skipped]
                   /\ result' = [result EXCEPT ![p] =
                        Caught(<<"EACCES: permission denied, open">>)]
                   /\ pc' = [pc EXCEPT ![p] = "finally"]
  /\ UNCHANGED <<hostVars, inputVars, attempt, clone, tempDir, push, cleanup,
                 outcomes, calls>>

\* ------------------------------------------------------------ pushToGitHub

commitMessage == "Add Smithery deployment configuration"

\* A push-failure outcome that drops the two lists.
PushFailureNoLists(p, msg) ==
  [threw |-> FALSE, success |-> FALSE, tempDir |-> tempDir[p],
   filesGenerated |-> << >>, filesSkipped |-> << >>,
   deploymentUrl |-> << >>, error |-> <<"Failed to push: ">> \o msg]

\* The outcome deployFromGit returns when pushToGitHub reports a failure.
PushFailure(p, msg) ==
  [threw |-> FALSE, success |-> FALSE, tempDir |-> tempDir[p],
   filesGenerated |-> filesGenerated[p], filesSkipped |-> filesSkipped[p],
   deploymentUrl |-> << >>, error |-> <<"Failed to push: ">> \o msg]

\* The outcome deployFromGit returns after a successful push.
Success(p) ==
  [threw |-> FALSE, success |-> TRUE, tempDir |-> 0,
   filesGenerated |-> filesGenerated[p], filesSkipped |-> filesSkipped[p],
   deploymentUrl |-> <<"https://smithery.ai/new?repo=", targetOwner, "/", targetRepo>>,
   error |-> << >>]

\* pushToGitHub returns {success: false, error: msg}, and deployFromGit
\* returns its push-failure outcome.
PushFail(p, locals, msg) ==
  /\ push' = [push EXCEPT ![p] =
       [locals EXCEPT !.returned = TRUE, !.success = FALSE, !.error = msg]]
  /\ result' = [result EXCEPT ![p] = PushFailure(p, msg)]
  /\ pc' = [pc EXCEPT ![p] = "finally"]

\* pushToGitHub's catch block: the exception's message becomes the error.
PushCatch(p, locals, msg) == PushFail(p, locals, msg)

\* pushToGitHub returns {success: true}, and deployFromGit returns success.
PushOk(p, locals) ==
  /\ push' = [push EXCEPT ![p] = [locals EXCEPT !.returned = TRUE, !.success = TRUE]]
  /\ result' = [result EXCEPT ![p] = Success(p)]
  /\ pc' = [pc EXCEPT ![p] = "finally"]

\* Whether the service holds a ref for the branch.
HasRef(b) == repoExists /\ refs[b] # 0

\* Step 1, first lookup: the ref of the target branch.
GetRef(p) ==
  /\ pc[p] = "getRef"
  /\ LET b == opts.targetBranch
         locals == [push[p] EXCEPT !.started = TRUE, !.startRefs = refs]
     IN \E res \in {"ok", "notok", "throw"} :
          /\ res = "ok" => HasRef(b)
          /\ calls' = Log(p, Call("getRef", b, res))
          /\ CASE res = "ok" ->
                    /\ push' = [push EXCEPT ![p] = [locals EXCEPT !.baseSha = refs[b]]]
                    /\ pc' = [pc EXCEPT ![p] = "getCommit"]
                    /\ UNCHANGED result
               [] res = "notok" ->
                    /\ push' = [push EXCEPT ![p] = locals]
                    /\ pc' = [pc EXCEPT ![p] = "getMain"]
                    /\ UNCHANGED result
               [] res = "throw" -> PushCatch(p, locals, FetchFailedMsg)
  /\ UNCHANGED <<hostVars, inputVars, fs, attempt, clone, tempDir,
                 filesGenerated, filesSkipped, cleanup, outcomes>>

\* Step 1 creating the missing target branch from main as soon as main is
\* found, instead of leaving every ref alone until step 6.
GetMainCreatingBranch(p) ==
  /\ pc[p] = "getMain"
  /\ \E res \in {"ok", "notok", "throw"} :
       /\ res = "ok" => HasRef("main")
       /\ calls' = Log(p, Call("getRef", "main", res))
       /\ CASE res = "ok" ->
                 /\ push' = [push EXCEPT ![p].baseSha = refs["main"]]
                 /\ refs' = [refs EXCEPT ![opts.targetBranch] = refs["main"]]
                 /\ pc' = [pc EXCEPT ![p] = "getCommit"]
                 /\ UNCHANGED result
            [] res = "notok" ->
                 /\ pc' = [pc EXCEPT ![p] = "getMaster"]
                 /\ UNCHANGED <<push, result, refs>>
            [] res = "throw" ->
                 PushCatch(p, push[p], FetchFailedMsg) /\ UNCHANGED refs
  /\ UNCHANGED <<srcRepo, repoExists, commits, trees, blobs, inputVars, fs, attempt,
                 clone, tempDir, filesGenerated, filesSkipped, cleanup, outcomes>>

\* A fallback that takes master's commit when master exists, main's otherwise.
GetMainPreferringMaster(p) ==
  /\ pc[p] = "getMain"
  /\ \E res \in {"ok", "notok", "throw"} :
       /\ res = "ok" => HasRef("main")
       /\ calls' = Log(p, Call("getRef", "main", res))
       /\ CASE res = "ok" ->
                 /\ push' = [push EXCEPT ![p].baseSha =
                      IF HasRef("master") THEN refs["master"] ELSE refs["main"]]
                 /\ pc' = [pc EXCEPT ![p] = "getCommit"]
                 /\ UNCHANGED result
            [] res = "notok" ->
                 /\ pc' = [pc EXCEPT ![p] = "getMaster"]
                 /\ UNCHANGED <<push, result>>
            [] res = "throw" -> PushCatch(p, push[p], FetchFailedMsg)
  /\ UNCHANGED <<hostVars, inputVars, fs, attempt, clone, tempDir,
                 filesGenerated, filesSkipped, cleanup, outcomes>>

\* Step 1, target branch not found: the ref of main.
GetMain(p) ==
  /\ pc[p] = "getMain"
  /\ \E res \in {"ok", "notok", "throw"} :
       /\ res = "ok" => HasRef("main")
       /\ calls' = Log(p, Call("getRef", "main", res))
       /\ CASE res = "ok" ->
                 /\ push' = [push EXCEPT ![p].baseSha = refs["main"]]
                 /\ pc' = [pc EXCEPT ![p] = "getCommit"]
                 /\ UNCHANGED result
            [] res = "notok" ->
                 /\ pc' = [pc EXCEPT ![p] = "getMaster"]
                 /\ UNCHANGED <<push, result>>
            [] res = "throw" -> PushCatch(p, push[p], FetchFailedMsg)
  /\ UNCHANGED <<hostVars, inputVars, fs, attempt, clone, tempDir,
                 filesGenerated, filesSkipped, cleanup, outcomes>>

\* A step 1 that goes on without a base when master is not found either.
NoBaseProceed(p) ==
  /\ pc' = [pc EXCEPT ![p] = "getCommit"]
  /\ UNCHANGED <<push, result>>

\* What step 1 does when master is not found either.
NoBaseBranch(p) ==
  PushFail(p, push[p], <<"Could not find any branch to base commit on">>)

\* Step 1, main not found: the ref of master, or no base at all.
GetMaster(p) ==
  /\ pc[p] = "getMaster"
  /\ \E res \in {"ok", "notok", "throw"} :
       /\ res = "ok" => HasRef("master")
       /\ calls' = Log(p, Call("getRef", "master", res))
       /\ CASE res = "ok" ->
                 /\ push' = [push EXCEPT ![p].baseSha = refs["master"]]
                 /\ pc' = [pc EXCEPT ![p] = "getCommit"]
                 /\ UNCHANGED result
            [] res = "notok" -> NoBaseBranch(p)
            [] res = "throw" -> PushCatch(p, push[p], FetchFailedMsg)
  /\ UNCHANGED <<hostVars, inputVars, fs, attempt, clone, tempDir,
                 filesGenerated, filesSkipped, cleanup, outcomes>>

\* A step 2 that lets an empty enumeration through.
emptyUploadAccepted(files) == FALSE

\* filesToUpload.length === 0
emptyUpload(files) == Len(files) = 0

\* Step 1, the base commit's tree; then step 2, collectFiles. A non-OK answer
\* carries no tree, so reading commitData.tree.sha throws.
GetCommit(p) ==
  /\ pc[p] = "getCommit"
  /\ LET d == tempDir[p]
         sha == push[p].baseSha
     IN \E res \in {"ok", "notok", "throw"} :
          /\ res = "ok" => repoExists /\ sha \in DOMAIN commits
          /\ calls' = Log(p, Call("getCommit", "", res))
          /\ CASE res = "ok" ->
                    LET files == collectFiles(fs[d].files)
                        locals == [push[p] EXCEPT !.baseTreeSha = commits[sha].tree,
                                                  !.filesToUpload = files]
                    IN IF ~fs[d].exists
                         THEN PushCatch(p, push[p],
                                <<"ENOENT: no such file or directory, scandir">>)
                         ELSE IF emptyUpload(files)
                           THEN PushFail(p, locals, <<"No files to upload">>)
                           ELSE /\ push' = [push EXCEPT ![p] = locals]
                                /\ pc' = [pc EXCEPT ![p] =
                                     IF Len(files) = 0 THEN "tree" ELSE "blob"]
                                /\ UNCHANGED result
               [] res = "notok" ->
                    PushCatch(p, push[p],
                      <<"Cannot read properties of undefined (reading 'sha')">>)
               [] res = "throw" -> PushCatch(p, push[p], FetchFailedMsg)
  /\ UNCHANGED <<hostVars, inputVars, fs, attempt, clone, tempDir,
                 filesGenerated, filesSkipped, cleanup, outcomes>>

\* The blob loop without its check of blobResponse.ok: the item is recorded
\* with the sha the error body does not carry, and the loop goes on.
BlobNotOkContinue(p, f) ==
  /\ push' = [push EXCEPT ![p].treeItems = Append(@, TreeItem(f, "undefined"))]
  /\ pc' = [pc EXCEPT ![p] =
       IF Len(push[p].treeItems) + 1 = Len(push[p].filesToUpload)
         THEN "tree" ELSE "blob"]
  /\ UNCHANGED result

\* A blob failure reported without the path of the file.
BlobNotOkNoPath(p, f) ==
  PushFail(p, push[p], <<"Failed to create blob: ", ErrorBody>>)

\* What the blob loop does after a non-OK answer for file f.
BlobNotOk(p, f) ==
  PushFail(p, push[p], <<"Failed to create blob for ", f, ": ", ErrorBody>>)

\* Step 3, one round of the loop: the blob of the next file.
CreateBlob(p) ==
  /\ pc[p] = "blob"
  /\ LET d == tempDir[p]
         i == Len(push[p].treeItems) + 1
         f == push[p].filesToUpload[i]
         content == fs[d].files[f]
     IN IF ~fs[d].exists \/ content = NoFile
          THEN /\ PushCatch(p, push[p], <<"ENOENT: no such file or directory, open">>)
               /\ UNCHANGED <<blobs, calls>>
          ELSE \E res \in {"ok", "notok", "throw"} :
                 /\ res = "ok" => repoExists
                 /\ calls' = Log(p, Call("createBlob", f, res))
                 /\ CASE res = "ok" ->
                           LET sha == StoredBlob(BlobBody(content))
                           IN /\ blobs' = blobs \cup {sha}
                              /\ push' = [push EXCEPT ![p].treeItems =
                                            Append(@, TreeItem(f, sha))]
                              /\ pc' = [pc EXCEPT ![p] =
                                   IF i = Len(push[p].filesToUpload)
                                     THEN "tree" ELSE "blob"]
                              /\ UNCHANGED result
                      [] res = "notok" -> BlobNotOk(p, f) /\ UNCHANGED blobs
                      [] res = "throw" ->
                           PushCatch(p, push[p], FetchFailedMsg) /\ UNCHANGED blobs
  /\ UNCHANGED <<srcRepo, repoExists, refs, commits, trees, inputVars, fs, attempt,
                 clone, tempDir, filesGenerated, filesSkipped, cleanup, outcomes>>

\* A step 4 that goes on to the commit after a non-OK answer.
TreeNotOkContinue(p) ==
  /\ pc' = [pc EXCEPT ![p] = "commit"]
  /\ UNCHANGED <<push, result>>

\* What step 4 does after a non-OK answer.
TreeNotOk(p) ==
  PushFail(p, push[p], <<"Failed to create tree: ", ErrorBody>>)

\* The body of the step 4 request.
TreeRequest(p) == [base_tree |-> push[p].baseTreeSha, tree |-> push[p].treeItems]

\* Step 4: one tree from base_tree and the tree items.
CreateTree(p) ==
  /\ pc[p] = "tree"
  /\ LET items == TreeRequest(p).tree
         base == TreeRequest(p).base_tree
     IN \E res \in {"ok", "notok", "throw"} :
          /\ res = "ok" => /\ repoExists
                           /\ base \in trees
                           /\ \A i \in DOMAIN items : items[i].sha \in blobs
          /\ calls' = Log(p, Call("createTree", "", res))
          /\ CASE res = "ok" ->
                    /\ trees' = trees \cup {ApplyTree(base, items)}
                    /\ push' = [push EXCEPT ![p].treeSha = ApplyTree(base, items)]
                    /\ pc' = [pc EXCEPT ![p] = "commit"]
                    /\ UNCHANGED result
               [] res = "notok" -> TreeNotOk(p) /\ UNCHANGED trees
               [] res = "throw" ->
                    PushCatch(p, push[p], FetchFailedMsg) /\ UNCHANGED trees
  /\ UNCHANGED <<srcRepo, repoExists, refs, commits, blobs, inputVars, fs, attempt,
                 clone, tempDir, filesGenerated, filesSkipped, cleanup, outcomes>>

\* A commit request that names no parent.
NoParents(p) == << >>

\* A commit request that names the branch's current tip as parent.
CurrentTipAsParent(p) == <<refs[opts.targetBranch]>>

\* The parents the commit request names.
CommitParents(p) == <<push[p].baseSha>>

\* Step 5: the commit on top of the base commit.
CreateCommit(p) ==
  /\ pc[p] = "commit"
  /\ \E res \in {"ok", "notok", "throw"} :
       /\ res = "ok" => /\ repoExists
                        /\ push[p].treeSha \in trees
                        /\ \A i \in DOMAIN CommitParents(p) :
                             CommitParents(p)[i] \in DOMAIN commits
       /\ calls' = Log(p, Call("createCommit", "", res))
       /\ CASE res = "ok" ->
                 /\ commits' = Append(commits,
                      Commit(push[p].treeSha, CommitParents(p), commitMessage))
                 /\ push' = [push EXCEPT ![p].newCommitSha = Len(commits) + 1]
                 /\ pc' = [pc EXCEPT ![p] = "updateRef"]
                 /\ UNCHANGED result
            [] res = "notok" ->
                 /\ PushFail(p, push[p], <<"Failed to create commit: ", ErrorBody>>)
                 /\ UNCHANGED commits
            [] res = "throw" ->
                 PushCatch(p, push[p], FetchFailedMsg) /\ UNCHANGED commits
  /\ UNCHANGED <<srcRepo, repoExists, refs, trees, blobs, inputVars, fs, attempt,
                 clone, tempDir, filesGenerated, filesSkipped, cleanup, outcomes>>

\* A step 6 that does not look at updateRefResponse.ok: after a refused PATCH
\* it returns success without trying to create the ref.
UpdateRefIgnoringRefusal(p) ==
  /\ pc[p] = "updateRef"
  /\ LET b == opts.targetBranch
     IN \E res \in {"ok", "notok", "throw"} :
          /\ res = "ok" => HasRef(b) /\ push[p].newCommitSha \in DOMAIN commits
          /\ calls' = Log(p, Call("updateRef", b, res))
          /\ CASE res = "ok" ->
                    /\ refs' = [refs EXCEPT ![b] = push[p].newCommitSha]
                    /\ PushOk(p, push[p])
               [] res = "notok" ->
                    PushOk(p, push[p]) /\ UNCHANGED refs
               [] res = "throw" ->
                    PushCatch(p, push[p], FetchFailedMsg) /\ UNCHANGED refs
  /\ UNCHANGED <<srcRepo, repoExists, commits, trees, blobs, inputVars, fs, attempt,
                 clone, tempDir, filesGenerated, filesSkipped, cleanup, outcomes>>

\* A PATCH without force whose refusal goes unnoticed: the ref moves only
\* when the branch is still at the base commit.
UpdateRefFastForwardOnly(p) ==
  /\ pc[p] = "updateRef"
  /\ LET b == opts.targetBranch
     IN \E res \in {"ok", "notok", "throw"} :
          /\ res = "ok" => HasRef(b) /\ push[p].newCommitSha \in DOMAIN commits
          /\ calls' = Log(p, Call("updateRef", b, res))
          /\ CASE res = "ok" ->
                    /\ refs' = IF refs[b] = push[p].baseSha
                                  THEN [refs EXCEPT ![b] = push[p].newCommitSha]
                                  ELSE refs
                    /\ PushOk(p, push[p])
               [] res = "notok" ->
                    /\ pc' = [pc EXCEPT ![p] = "createRef"]
                    /\ UNCHANGED <<refs, push, result>>
               [] res = "throw" ->
                    PushCatch(p, push[p], FetchFailedMsg) /\ UNCHANGED refs
  /\ UNCHANGED <<srcRepo, repoExists, commits, trees, blobs, inputVars, fs, attempt,
                 clone, tempDir, filesGenerated, filesSkipped, cleanup, outcomes>>

\* Step 6, first call: PATCH the branch ref with force.
UpdateRef(p) ==
  /\ pc[p] = "updateRef"
  /\ LET b == opts.targetBranch
     IN \E res \in {"ok", "notok", "throw"} :
          /\ res = "ok" => HasRef(b) /\ push[p].newCommitSha \in DOMAIN commits
          /\ calls' = Log(p, Call("updateRef", b, res))
          /\ CASE res = "ok" ->
                    /\ refs' = [refs EXCEPT ![b] = push[p].newCommitSha]
                    /\ PushOk(p, push[p])
               [] res = "notok" ->
                    /\ pc' = [pc EXCEPT ![p] = "createRef"]
                    /\ UNCHANGED <<refs, push, result>>
               [] res = "throw" ->
                    PushCatch(p, push[p], FetchFailedMsg) /\ UNCHANGED refs
  /\ UNCHANGED <<srcRepo, repoExists, commits, trees, blobs, inputVars, fs, attempt,
                 clone, tempDir, filesGenerated, filesSkipped, cleanup, outcomes>>

\* A step 6 that, when it creates the branch, also moves main to the new
\* commit.
CreateRefMovingMain(p) ==
  /\ pc[p] = "createRef"
  /\ LET b == opts.targetBranch
     IN \E res \in {"ok", "notok", "throw"} :
          /\ res = "ok" => /\ repoExists
                           /\ refs[b] = 0
                           /\ push[p].newCommitSha \in DOMAIN commits
          /\ calls' = Log(p, Call("createRef", b, res))
          /\ CASE res = "ok" ->
                    /\ refs' = [refs EXCEPT ![b] = push[p].newCommitSha,
                                            !["main"] = push[p].newCommitSha]
                    /\ PushOk(p, push[p])
               [] res = "notok" ->
                    /\ PushFail(p, push[p],
                         <<"Failed to update/create branch: ", ErrorBody>>)
                    /\ UNCHANGED refs
               [] res = "throw" ->
                    PushCatch(p, push[p], FetchFailedMsg) /\ UNCHANGED refs
  /\ UNCHANGED <<srcRepo, repoExists, commits, trees, blobs, inputVars, fs, attempt,
                 clone, tempDir, filesGenerated, filesSkipped, cleanup, outcomes>>

\* Step 6, after a failed PATCH: POST the branch ref.
CreateRef(p) ==
  /\ pc[p] = "createRef"
  /\ LET b == opts.targetBranch
     IN \E res \in {"ok", "notok", "throw"} :
          /\ res = "ok" => /\ repoExists
                           /\ refs[b] = 0
                           /\ push[p].newCommitSha \in DOMAIN commits
          /\ calls' = Log(p, Call("createRef", b, res))
          /\ CASE res = "ok" ->
                    /\ refs' = [refs EXCEPT ![b] = push[p].newCommitSha]
                    /\ PushOk(p, push[p])
               [] res = "notok" ->
                    /\ PushFail(p, push[p],
                         <<"Failed to update/create branch: ", ErrorBody>>)
                    /\ UNCHANGED refs
               [] res = "throw" ->
                    PushCatch(p, push[p], FetchFailedMsg) /\ UNCHANGED refs
  /\ UNCHANGED <<srcRepo, repoExists, commits, trees, blobs, inputVars, fs, attempt,
                 clone, tempDir, filesGenerated, filesSkipped, cleanup, outcomes>>

\* pushToGitHub of the module that runs the git binary: the local git
\* commands, then git push --force; any of them failing ends the push. The
\* pushed commit holds the working tree.
GitPush(p) ==
  /\ pc[p] = "gitPush"
  /\ LET d == tempDir[p]
         b == opts.targetBranch
         failure(msg) == IF entry = "tool"
                           THEN ToolError(<<"Failed to push: ">> \o msg)
                           ELSE PushFailure(p, msg)
         success == IF entry = "tool"
                      THEN [Success(p) EXCEPT !.deploymentUrl = <<"https://smithery.ai/new">>]
                      ELSE Success(p)
     IN \/ /\ calls' = Log(p, Call("gitCommit", "", "throw"))
           /\ result' = [result EXCEPT ![p] = failure(<<"Command failed: git">>)]
           /\ UNCHANGED <<refs, commits, trees>>
        \/ /\ calls' = Log2(p, Call("gitCommit", "", "ok"), Call("gitPush", b, "throw"))
           /\ result' = [result EXCEPT ![p] = failure(<<"Command failed: git push">>)]
           /\ UNCHANGED <<refs, commits, trees>>
        \/ /\ repoExists
           /\ calls' = Log2(p, Call("gitCommit", "", "ok"), Call("gitPush", b, "ok"))
           /\ commits' = Append(commits, Commit(fs[d].files, << >>, commitMessage))
           /\ trees' = trees \cup {fs[d].files}
           /\ refs' = [refs EXCEPT ![b] = Len(commits) + 1]
           /\ result' = [result EXCEPT ![p] = success]
  /\ pc' = [pc EXCEPT ![p] = "finally"]
  /\ UNCHANGED <<srcRepo, repoExists, blobs, inputVars, fs, attempt, localVars>>

\* ------------------------------------------------------------- the exit

\* A cleanupTempDir that removes nothing.
cleanupNothing(files, d, removed) == files

\* cleanupTempDir: remove the directory, swallow an error of the removal.
cleanupTempDir(files, d, removed) == rmSync(files, d, removed)

\* A cleanupTempDir without its try/catch: an error of the removal escapes.
cleanupThrowsOnFailure(removed) == ~removed

\* Whether cleanupTempDir throws: never, its catch block ignores the error.
cleanupThrows(removed) == FALSE

\* deployFromGit's finally block, then the return to the caller.
Finally(p) ==
  /\ pc[p] = "finally"
  /\ IF tempDir[p] # 0
       THEN \E removed \in BOOLEAN :
              /\ fs' = cleanupTempDir(fs, tempDir[p], removed)
              /\ cleanup' = [cleanup EXCEPT ![p] =
                   IF removed THEN "removed" ELSE "failed"]
              /\ result' = IF cleanupThrows(removed)
                             THEN [result EXCEPT ![p] =
                                     Rethrow(<<"EBUSY: resource busy or locked, rmdir">>)]
                             ELSE result
       ELSE UNCHANGED <<fs, cleanup, result>>
  /\ pc' = [pc EXCEPT ![p] = "done"]
  /\ UNCHANGED <<hostVars, inputVars, attempt, clone, tempDir, filesGenerated,
                 filesSkipped, push, outcomes, calls>>

\* The caller calls deployFromGit again with the same arguments.
Retry(p) ==
  /\ pc[p] = "done"
  /\ attempt[p] < MaxAttempts
  /\ attempt' = [attempt EXCEPT ![p] = @ + 1]
  /\ pc' = [pc EXCEPT ![p] = "clone"]
  /\ clone' = [clone EXCEPT ![p] = NoClone]
  /\ tempDir' = [tempDir EXCEPT ![p] = 0]
  /\ filesGenerated' = [filesGenerated EXCEPT ![p] = << >>]
  /\ filesSkipped' = [filesSkipped EXCEPT ![p] = << >>]
  /\ push' = [push EXCEPT ![p] = NoPush]
  /\ result' = [result EXCEPT ![p] = NoResult]
  /\ cleanup' = [cleanup EXCEPT ![p] = ""]
  /\ outcomes' = [outcomes EXCEPT ![p] = Append(@, result[p].success)]
  /\ calls' = [calls EXCEPT ![p] = << >>]
  /\ UNCHANGED <<hostVars, inputVars, fs>>

Next ==
  \/ \E p \in procs : CloneStart(p)
  \/ \E p \in procs : GetRepoInfo(p)
  \/ \E p \in procs : Download(p)
  \/ \E p \in procs : ToolValidate(p)
  \/ \E p \in procs : GitClone(p)
  \/ \E p \in procs : CheckRepoExists(p)
  \/ \E p \in procs : GetUser(p)
  \/ \E p \in procs : PostRepo(p)
  \/ \E p \in procs : Materialize(p)
  \/ \E p \in procs : GetRef(p)
  \/ \E p \in procs : GetMain(p)
  \/ \E p \in procs : GetMaster(p)
  \/ \E p \in procs : GetCommit(p)
  \/ \E p \in procs : CreateBlob(p)
  \/ \E p \in procs : CreateTree(p)
  \/ \E p \in procs : CreateCommit(p)
  \/ \E p \in procs : UpdateRef(p)
  \/ \E p \in procs : CreateRef(p)
  \/ \E p \in procs : GitPush(p)
  \/ \E p \in procs : Finally(p)
  \/ InitPropagates

Spec == Init /\ [][Next]_vars

NextRetry ==
  \/ \E p \in procs : CloneStart(p)
  \/ \E p \in procs : GetRepoInfo(p)
  \/ \E p \in procs : Download(p)
  \/ \E p \in procs : CheckRepoExists(p)
  \/ \E p \in procs : GetUser(p)
  \/ \E p \in procs : PostRepo(p)
  \/ \E p \in procs : Materialize(p)
  \/ \E p \in procs : GetRef(p)
  \/ \E p \in procs : GetMain(p)
  \/ \E p \in procs : GetMaster(p)
  \/ \E p \in procs : GetCommit(p)
  \/ \E p \in procs : CreateBlob(p)
  \/ \E p \in procs : CreateTree(p)
  \/ \E p \in procs : CreateCommit(p)
  \/ \E p \in procs : UpdateRef(p)
  \/ \E p \in procs : CreateRef(p)
  \/ \E p \in procs : Finally(p)
  \/ \E p \in procs : Retry(p)
  \/ InitPropagates

SpecRetry == InitRetry /\ [][NextRetry]_vars

\* Two calls of deployFromGit interleaved at their awaits.
NextConcurrent ==
  \/ \E p \in procs : CloneStart(p)
  \/ \E p \in procs : GetRepoInfo(p)
  \/ \E p \in procs : Download(p)
  \/ \E p \in procs : CheckRepoExists(p)
  \/ \E p \in procs : GetUser(p)
  \/ \E p \in procs : PostRepo(p)
  \/ \E p \in procs : Materialize(p)
  \/ \E p \in procs : GetRef(p)
  \/ \E p \in procs : GetMain(p)
  \/ \E p \in procs : GetMaster(p)
  \/ \E p \in procs : GetCommit(p)
  \/ \E p \in procs : CreateBlob(p)
  \/ \E p \in procs : CreateTree(p)
  \/ \E p \in procs : CreateCommit(p)
  \/ \E p \in procs : UpdateRef(p)
  \/ \E p \in procs : CreateRef(p)
  \/ \E p \in procs : Finally(p)

SpecConcurrent == InitConcurrent /\ [][NextConcurrent]_vars

\* The first step of cloneRepository on each URL, and the return of a call
\* that failed in it.
NextParse ==
  \/ \E p \in procs : CloneStart(p)
  \/ \E p \in procs : Finally(p)

SpecParse == InitParse /\ [][NextParse]_vars

\* ------------------------------------------- the tools that write in place

\* The runs of the tools that write the generated files into a directory the
\* caller names: the init tool of the server, deploy(), the init command of
\* the command line, and writeGeneratedFiles called by itself.
LocalCases ==
  [entry : {"init", "deploy", "cli", "write"},
   opts : [allowWrite : BOOLEAN, dryRun : BOOLEAN, force : BOOLEAN],
   generatedFiles : FileSets,
   targetDir : {NoDir} \cup
               [exists : {TRUE},
                files : {NoFiles, [NoFiles EXCEPT !["README.md"] = "old"],
                         [NoFiles EXCEPT !["smithery.yaml"] = "old"]}]]

InitLocal ==
  /\ \E c \in LocalCases :
       /\ entry = c.entry
       /\ opts = c.opts
       /\ generatedFiles = c.generatedFiles
       /\ fs = [d \in DirNames |-> IF d = 1 THEN c.targetDir ELSE NoDir]
  /\ srcRepo = [default_branch |-> "main", files |-> NoFiles]
  /\ repoExists = FALSE
  /\ refs = NoRefs
  /\ commits = << >>
  /\ trees = {}
  /\ blobs = {}
  /\ procs = {1}
  /\ attempt = [p \in ProcIds |-> IF p = 1 THEN 1 ELSE 0]
  /\ pc = [p \in ProcIds |-> IF p = 1 THEN "local" ELSE "idle"]
  /\ clone = [p \in ProcIds |-> NoClone]
  /\ tempDir = [p \in ProcIds |-> 0]
  /\ filesGenerated = [p \in ProcIds |-> << >>]
  /\ filesSkipped = [p \in ProcIds |-> << >>]
  /\ push = [p \in ProcIds |-> NoPush]
  /\ result = [p \in ProcIds |-> NoResult]
  /\ cleanup = [p \in ProcIds |-> ""]
  /\ outcomes = [p \in ProcIds |-> << >>]
  /\ calls = [p \in ProcIds |-> << >>]

\* The directory the tools write into.
targetDir == 1

WritingDisabledMsg ==
  <<"Error: Writing files is disabled. Set allowWrite=true in the server configuration to enable file writing.">>

\* writeGeneratedFiles(targetDir, files, {dryRun, overwrite}): the loop of the
\* materializer with overwrite for force; a dry run leaves every file alone.
writeGeneratedFiles(files, entries, dryRun) ==
  LET st == WriteEntries(files, entries, Len(entries))
  IN IF dryRun THEN [st EXCEPT !.files = files] ELSE st

\* The return of a tool that ran to its end.
LocalDone(written, skipped) ==
  [threw |-> FALSE, success |-> TRUE, tempDir |-> 0, filesGenerated |-> written,
   filesSkipped |-> skipped, deploymentUrl |-> << >>, error |-> << >>]

\* The tool runs writeGeneratedFiles and returns its two lists.
LocalWrite(p, dryRun) ==
  LET st == writeGeneratedFiles(fs[targetDir].files, generatedFiles, dryRun)
  IN /\ fs[targetDir].exists
     /\ fs' = [fs EXCEPT ![targetDir].files = st.files]
     /\ filesGenerated' = [filesGenerated EXCEPT ![p] = st.generated]
     /\ filesSkipped' = [filesSkipped EXCEPT ![p] = st.skipped]
     /\ result' = [result EXCEPT ![p] = LocalDone(st.generated, st.skipped)]

\* The tool ends with an error, or throws, before it wrote anything.
LocalError(p, outcome) ==
  /\ result' = [result EXCEPT ![p] = outcome]
  /\ UNCHANGED <<fs, filesGenerated, filesSkipped>>

\* An init tool that does not look at config.allowWrite.
initAlwaysAllowed == TRUE

\* The first test of the init tool: config.allowWrite.
initAllowed == opts.allowWrite

\* The init tool of the server.
InitTool(p) ==
  /\ pc[p] = "local" /\ entry = "init"
  /\ IF ~initAllowed
       THEN LocalError(p, ToolError(WritingDisabledMsg))
       ELSE IF ~fs[targetDir].exists
         THEN LocalError(p, ToolError(<<"Error: Directory does not exist: ">>))
         ELSE \/ LocalError(p, ToolError(<<"Error initializing deployment: ",
                                          "EACCES: permission denied, scandir">>))
              \/ LocalWrite(p, FALSE)
  /\ pc' = [pc EXCEPT ![p] = "done"]
  /\ UNCHANGED <<hostVars, inputVars, attempt, clone, tempDir, push, cleanup,
                 outcomes, calls>>

\* Object.keys(files).filter((k) => files[k]): the names with content.
RECURSIVE WithContent(_)
WithContent(entries) ==
  IF entries = << >> THEN << >>
  ELSE (IF Head(entries).content # "" THEN <<Head(entries).name>> ELSE << >>)
       \o WithContent(Tail(entries))

\* deploy(options): detection, generation, and the write unless dryRun.
DeployLocal(p) ==
  /\ pc[p] = "local" /\ entry = "deploy"
  /\ \/ LocalError(p, Rethrow(<<"EACCES: permission denied, scandir">>))
     \/ /\ fs[targetDir].exists
        /\ IF opts.dryRun
             THEN /\ result' = [result EXCEPT ![p] =
                       LocalDone(WithContent(generatedFiles), << >>)]
                  /\ UNCHANGED <<fs, filesGenerated, filesSkipped>>
             ELSE LocalWrite(p, FALSE)
  /\ pc' = [pc EXCEPT ![p] = "done"]
  /\ UNCHANGED <<hostVars, inputVars, attempt, clone, tempDir, push, cleanup,
                 outcomes, calls>>

\* The init command of the command line: with --dry-run it prints the files
\* and returns before the write.
CliInit(p) ==
  /\ pc[p] = "local" /\ entry = "cli"
  /\ \/ LocalError(p, ToolError(<<"Error:", "EACCES: permission denied, scandir">>))
     \/ /\ fs[targetDir].exists
        /\ IF opts.dryRun
             THEN /\ result' = [result EXCEPT ![p] = LocalDone(<< >>, << >>)]
                  /\ UNCHANGED <<fs, filesGenerated, filesSkipped>>
             ELSE LocalWrite(p, opts.dryRun)
  /\ pc' = [pc EXCEPT ![p] = "done"]
  /\ UNCHANGED <<hostVars, inputVars, attempt, clone, tempDir, push, cleanup,
                 outcomes, calls>>

\* writeGeneratedFiles called by itself with the caller's options.
WriteGenerated(p) ==
  /\ pc[p] = "local" /\ entry = "write"
  /\ LocalWrite(p, opts.dryRun)
  /\ pc' = [pc EXCEPT ![p] = "done"]
  /\ UNCHANGED <<hostVars, inputVars, attempt, clone, tempDir, push, cleanup,
                 outcomes, calls>>

NextLocal ==
  \/ \E p \in procs : InitTool(p)
  \/ \E p \in procs : DeployLocal(p)
  \/ \E p \in procs : CliInit(p)
  \/ \E p \in procs : WriteGenerated(p)

SpecLocal == InitLocal /\ [][NextLocal]_vars

\* ============================================================ properties

\* The calls of process p, and the positions before position i.
Calls(p) == calls[p]
Before(i) == 1..(i - 1)
RefOps == {"updateRef", "createRef"}
WriteOps == {"createBlob", "createTree", "createCommit", "updateRef", "createRef"}
PublishOps == WriteOps \cup {"getRef", "getCommit"}

\* C1: in every publish, the tree call is issued only after the blob call of
\* every enumerated file returned OK, the commit call only after the tree call
\* returned OK, and a ref call only after the commit call returned OK.
C1_DependencyOrder ==
  \A p \in procs : \A i \in DOMAIN Calls(p) :
    LET c == Calls(p)[i]
    IN /\ c.op = "createTree" =>
            \A k \in DOMAIN push[p].filesToUpload :
              \E j \in Before(i) :
                Calls(p)[j] = Call("createBlob", push[p].filesToUpload[k], "ok")
       /\ c.op = "createCommit" =>
            \E j \in Before(i) : Calls(p)[j] = Call("createTree", "", "ok")
       /\ c.op \in RefOps =>
            \E j \in Before(i) : Calls(p)[j] = Call("createCommit", "", "ok")

\* A publish of two files that went through all four kinds of calls.
C1_Witness ==
  \E p \in procs :
    /\ pc[p] = "done"
    /\ push[p].success
    /\ Len(push[p].filesToUpload) = 2
    /\ \E i \in DOMAIN Calls(p) : Calls(p)[i].op = "createRef"

\* Whether process p's publish has issued a ref call so far.
RefCallIssued(p) == \E i \in DOMAIN Calls(p) : Calls(p)[i].op \in RefOps

\* Process p's publish started on a repository the gate had just created,
\* whose initial commit was not yet visible on a branch.
InitPendingAtStart(p) ==
  /\ push[p].started /\ push[p].startRefs = NoRefs
  /\ commits # << >> /\ commits[1] = Commit(Tree1, << >>, "Initial commit")

\* Where the refs may point while nothing but the service itself has moved
\* them since process p's publish started.
RefsLeftAlone(p) ==
  {push[p].startRefs} \cup
  (IF InitPendingAtStart(p) THEN {[NoRefs EXCEPT !["main"] = 1]} ELSE {})

\* C2: as long as a publish has not reached its final step (it is still in,
\* or has failed at, resolve-base, enumeration, blob, tree or commit
\* creation), every ref of the target repository points where it pointed
\* when the publish started, or where the service's own initialization of a
\* repository just created has put it.
C2_RefsUntouchedBeforeFinalStep ==
  \A p \in procs :
    (push[p].started /\ ~RefCallIssued(p)) => refs \in RefsLeftAlone(p)

\* A publish that created its blobs and its tree and failed at the commit.
C2_Witness ==
  \E p \in procs :
    /\ push[p].returned /\ ~push[p].success
    /\ Len(Calls(p)) > 0
    /\ Calls(p)[Len(Calls(p))] = Call("createCommit", "", "notok")
    /\ push[p].startRefs[opts.targetBranch] = 0
    /\ refs = push[p].startRefs

\* C3 as stated: when the orchestrator has returned, the scratch directory it
\* obtained from the fetch does not exist.
C3_Original ==
  \A p \in procs :
    (pc[p] = "done" /\ tempDir[p] # 0) => ~fs[tempDir[p]].exists

\* C3 as amended: when the orchestrator has returned, on every exit path, the
\* removal of the scratch directory it obtained has been attempted, and the
\* directory does not exist unless that removal raised an error (which
\* cleanupTempDir swallows).
C3_CleanupAttempted ==
  \A p \in procs :
    (pc[p] = "done" /\ tempDir[p] # 0) =>
      /\ cleanup[p] \in {"removed", "failed"}
      /\ cleanup[p] = "removed" => ~fs[tempDir[p]].exists

\* The exit paths of C3, each reached with the directory removed: success, a
\* failed creation, a missing repository with creation disabled, a failed
\* push, an exception after the fetch; for deployFromGit and for the tool.
C3_Witness ==
  \E p \in procs :
    /\ pc[p] = "done" /\ tempDir[p] # 0 /\ cleanup[p] = "removed"
    /\ ~fs[tempDir[p]].exists
    /\ entry = "api" /\ ~result[p].success
    /\ result[p].error = <<"EACCES: permission denied, open">>

\* C4: deployFromGit never lets an exception escape: when it has returned, it
\* has returned an outcome, and an outcome that does not report success
\* carries a non-empty error; it reports success only after a ref call that
\* returned OK.
C4_NoExceptionEscapes ==
  \A p \in procs :
    (pc[p] \in {"finally", "done"}) =>
      /\ ~result[p].threw
      /\ ~result[p].success => ~IsEmptyMsg(result[p].error)
      /\ (entry = "api" /\ result[p].success) =>
           \E i \in DOMAIN Calls(p) :
             Calls(p)[i].op \in RefOps /\ Calls(p)[i].res = "ok"

\* An exception raised inside the fetch that came back as an outcome.
C4_Witness ==
  \E p \in procs :
    /\ pc[p] = "done" /\ entry = "api"
    /\ clone[p].outcome = "threw"
    /\ ~result[p].success /\ ~result[p].threw
    /\ result[p].error = <<"Failed to download repository: ", "fetch failed">>

\* C5 as stated: a failed fetch has removed the scratch directory it created,
\* a fetch that returned has left one that exists, and an invalid URL fails
\* before any directory is created.
C5_Original ==
  \A p \in procs :
    /\ (clone[p].outcome = "threw" /\ clone[p].tempDir # 0) =>
         ~fs[clone[p].tempDir].exists
    /\ (clone[p].outcome = "returned" /\ pc[p] # "done") =>
         fs[clone[p].tempDir].exists
    /\ (clone[p].outcome = "threw" /\ parseGitUrl(opts.sourceRepoUrl) = Null
        /\ entry = "api") =>
         clone[p].tempDir = 0 /\ \A d \in DirNames : ~fs[d].exists

\* C5 as amended: a failed fetch has attempted to remove the scratch
\* directory it created before the error reaches the caller, and the
\* directory is gone unless that removal itself raised an error (which is
\* swallowed); a fetch that returned has left a directory that exists; an
\* invalid URL fails before any directory is created.
C5_AllOrNothing ==
  \A p \in procs :
    /\ (clone[p].outcome = "threw" /\ clone[p].tempDir # 0) =>
         /\ clone[p].rm \in {"removed", "failed"}
         /\ clone[p].rm = "removed" => ~fs[clone[p].tempDir].exists
    /\ (clone[p].outcome = "returned" /\ pc[p] # "done") =>
         fs[clone[p].tempDir].exists
    /\ (clone[p].outcome = "threw" /\ parseGitUrl(opts.sourceRepoUrl) = Null
        /\ entry = "api") =>
         clone[p].tempDir = 0 /\ \A d \in DirNames : ~fs[d].exists

\* A fetch that failed while extracting and removed what it had extracted.
C5_Witness ==
  \E p \in procs :
    /\ entry = "api"
    /\ clone[p].outcome = "threw" /\ clone[p].tempDir # 0
    /\ clone[p].rm = "removed"
    /\ ~fs[clone[p].tempDir].exists
    /\ result[p].error = <<"Failed to download repository: ", "TAR_BAD_ARCHIVE">>

\* Whether the target repository had none of the target branch, main and
\* master when process p's publish started.
NoBaseAtStart(p) ==
  /\ push[p].started /\ ~InitPendingAtStart(p)
  /\ \A b \in {opts.targetBranch, "main", "master"} : push[p].startRefs[b] = 0

NoBaseBranchMsg == <<"Could not find any branch to base commit on">>

\* Whether process p's publish has issued a call that creates or moves
\* something.
WriteCallIssued(p) == \E i \in DOMAIN Calls(p) : Calls(p)[i].op \in WriteOps

\* The last call of process p.
LastCall(p) == Calls(p)[Len(Calls(p))]

\* C6 as stated: a publish against a target with none of the target branch,
\* main and master fails with the no-base-branch error and issues no blob,
\* tree, commit or ref call.
C6_Original ==
  \A p \in procs :
    (NoBaseAtStart(p) /\ push[p].returned) =>
      /\ ~push[p].success
      /\ push[p].error = NoBaseBranchMsg
      /\ ~WriteCallIssued(p)

\* C6 as amended: a publish against a target with none of the target branch,
\* main and master issues no blob, tree, commit or ref call and fails; it
\* fails with the no-base-branch error when the three lookups were answered,
\* and with the message of the transport error when a lookup raised one.
C6_NoBaseBranch ==
  \A p \in procs :
    NoBaseAtStart(p) =>
      /\ ~WriteCallIssued(p)
      /\ push[p].returned =>
           /\ ~push[p].success
           /\ LastCall(p).res = "notok" =>
                /\ LastCall(p) = Call("getRef", "master", "notok")
                /\ push[p].error = NoBaseBranchMsg
           /\ LastCall(p).res = "throw" => push[p].error = FetchFailedMsg
           /\ LastCall(p).op = "getRef" /\ LastCall(p).res # "ok"

\* The three lookups answered "not found" on a repository without branches.
C6_Witness ==
  \E p \in procs :
    /\ NoBaseAtStart(p) /\ push[p].returned
    /\ push[p].error = NoBaseBranchMsg
    /\ repoExists /\ refs = NoRefs
    /\ LastCall(p) = Call("getRef", "master", "notok")
    /\ result[p].error = <<"Failed to push: ">> \o NoBaseBranchMsg

\* Whether the message names the path.
Names(msg, f) == \E k \in DOMAIN msg : msg[k] = f

\* C7 as stated: a failed blob call ends the publish at once, with an error
\* that names the file's path: no call follows it.
C7_Original ==
  \A p \in procs : \A i \in DOMAIN Calls(p) :
    (Calls(p)[i].op = "createBlob" /\ Calls(p)[i].res # "ok") =>
      /\ i = Len(Calls(p))
      /\ push[p].returned /\ ~push[p].success
      /\ Names(push[p].error, Calls(p)[i].arg)

\* C7 as amended: a failed blob call ends the publish at once: no further
\* blob call and no tree, commit or ref call follows it. The error names the
\* file's path when the service answered with a non-OK status; when the call
\* raised a transport error the error is that error's message, which does not
\* name the path.
C7_BlobFailureTerminal ==
  \A p \in procs : \A i \in DOMAIN Calls(p) :
    (Calls(p)[i].op = "createBlob" /\ Calls(p)[i].res # "ok") =>
      /\ i = Len(Calls(p))
      /\ push[p].returned /\ ~push[p].success
      /\ Calls(p)[i].res = "notok" => Names(push[p].error, Calls(p)[i].arg)
      /\ Calls(p)[i].res = "throw" => push[p].error = FetchFailedMsg

\* The second of two blob calls answered with a non-OK status.
C7_Witness ==
  \E p \in procs :
    /\ Len(Calls(p)) > 1
    /\ LastCall(p) = Call("createBlob", "smithery.yaml", "notok")
    /\ Calls(p)[Len(Calls(p)) - 1] = Call("createBlob", "README.md", "ok")
    /\ push[p].returned
    /\ push[p].error = <<"Failed to create blob for ", "smithery.yaml", ": ", ErrorBody>>

\* The calls that are retried inside their own step: a lookup of step 1
\* answered "not found" is followed by the lookup of the next candidate, and
\* a refused update of step 6 is followed by the creation of the ref.
FallsBack(c, d) ==
  /\ c.res = "notok"
  /\ \/ c.op = "getRef" /\ d.op = "getRef" /\ c.arg # "master"
     \/ c.op = "updateRef" /\ d.op = "createRef"

\* C8: in a publish the failure of a step is terminal: a call that failed is
\* the last call of the attempt, unless it is retried inside its own step; a
\* failed enumeration is followed by no call; every call of the attempt is a
\* lookup or a creation, none deletes, and the blobs, the tree and the commit
\* created before the failure are still held by the service.
C8_FailureTerminal ==
  \A p \in procs :
    entry = "api" =>
      /\ \A i \in DOMAIN Calls(p) :
           (Calls(p)[i].op \in PublishOps /\ Calls(p)[i].res # "ok") =>
             \/ i = Len(Calls(p)) /\ (push[p].returned => ~push[p].success)
             \/ i < Len(Calls(p)) /\ FallsBack(Calls(p)[i], Calls(p)[i + 1])
      /\ push[p].error = <<"No files to upload">> =>
           LastCall(p) = Call("getCommit", "", "ok")
      /\ \A i \in DOMAIN Calls(p) :
           Calls(p)[i].op \in PublishOps \cup
             {"getRepoInfo", "tarball", "getRepo", "getUser", "createRepo"}
      /\ \A i \in DOMAIN push[p].treeItems : push[p].treeItems[i].sha \in blobs
      /\ push[p].treeSha # NoFiles => push[p].treeSha \in trees
      /\ push[p].newCommitSha # 0 => push[p].newCommitSha \in DOMAIN commits

\* A publish that created two blobs and failed at the tree.
C8_Witness ==
  \E p \in procs :
    /\ push[p].returned /\ ~push[p].success
    /\ LastCall(p) = Call("createTree", "", "notok")
    /\ Len(push[p].treeItems) = 2
    /\ \A i \in DOMAIN push[p].treeItems : push[p].treeItems[i].sha \in blobs
    /\ pc[p] = "done"

\* The files process p's publish enumerates in its workspace.
Enumerated(p) == collectFiles(fs[tempDir[p]].files)

\* Process p's publish has returned, every call of the run was answered OK,
\* the target branch existed at a commit when the publish started, and no
\* enumerated file differs from that commit's tree.
NothingChanged(p) ==
  /\ entry = "api" /\ pc[p] = "finally" /\ push[p].returned
  /\ \A i \in DOMAIN Calls(p) : Calls(p)[i].res = "ok"
  /\ push[p].startRefs[opts.targetBranch] # 0
  /\ \A k \in DOMAIN Enumerated(p) :
       fs[tempDir[p]].files[Enumerated(p)[k]] =
         commits[push[p].startRefs[opts.targetBranch]].tree[Enumerated(p)[k]]

\* The publish succeeded and left the target branch at a new commit with the
\* tree of the commit it was at and that commit as its only parent.
SameTreeOnTop(p) ==
  LET b == opts.targetBranch
      C == push[p].startRefs[b]
  IN /\ push[p].success
     /\ refs[b] # C
     /\ refs[b] \in DOMAIN commits
     /\ commits[refs[b]].tree = commits[C].tree
     /\ commits[refs[b]].parents = <<C>>

\* C9 as stated: a publish on a target branch at commit C with tree T, with
\* no enumerated file differing from T, succeeds and leaves the branch at a
\* new commit with a tree equivalent to T and C as its only parent.
C9_Original ==
  \A p \in procs : NothingChanged(p) => SameTreeOnTop(p)

\* C9 as amended: a publish on a target branch at commit C with tree T, that
\* enumerates at least one file and none differing from T, and whose calls
\* are all answered OK, succeeds and leaves the branch at a new commit with a
\* tree equivalent to T and C as its only parent; with no file enumerated it
\* fails with "No files to upload" and leaves the branch at C.
C9_NoChangeCommit ==
  \A p \in procs :
    NothingChanged(p) =>
      IF Len(Enumerated(p)) > 0
        THEN SameTreeOnTop(p)
        ELSE /\ ~push[p].success
             /\ push[p].error = <<"No files to upload">>
             /\ refs = push[p].startRefs

\* A publish of the files the branch already holds.
C9_Witness ==
  \E p \in procs :
    /\ NothingChanged(p) /\ Len(Enumerated(p)) = 2
    /\ SameTreeOnTop(p)
    /\ commits[refs[opts.targetBranch]].tree = Tree2

\* The second of two calls in succession has returned success.
SecondSucceeded(p) ==
  /\ attempt[p] = 2 /\ pc[p] \in {"finally", "done"}
  /\ result[p].success

\* The tree of the commit the target branch points at.
TipTree == commits[refs[opts.targetBranch]].tree

\* The content the file set holds for the path.
FileSetContent(f) ==
  LET i == CHOOSE k \in DOMAIN generatedFiles : generatedFiles[k].name = f
  IN generatedFiles[i].content

\* C10 as stated, granting that the second call succeeds: after two calls in
\* succession with the same inputs the target branch points at a commit that
\* holds, for every non-empty entry of the file set, the entry's content,
\* whatever the outcome of the first call.
C10_Original ==
  \A p \in procs :
    SecondSucceeded(p) =>
      /\ refs[opts.targetBranch] \in DOMAIN commits
      /\ \A k \in DOMAIN generatedFiles :
           generatedFiles[k].content # "" =>
             TipTree[generatedFiles[k].name] = generatedFiles[k].content

\* C10 as amended: after two calls in succession with the same inputs, the
\* second of which succeeds, the target branch points at a commit that holds
\* the file set's content for every path the second call reports as written
\* and the fetched source's content for every path it reports as skipped,
\* whatever the outcome of the first call.
C10_SecondCallWins ==
  \A p \in procs :
    SecondSucceeded(p) =>
      /\ refs[opts.targetBranch] \in DOMAIN commits
      /\ \A k \in DOMAIN result[p].filesGenerated :
           TipTree[result[p].filesGenerated[k]] =
             FileSetContent(result[p].filesGenerated[k])
      /\ \A k \in DOMAIN result[p].filesSkipped :
           TipTree[result[p].filesSkipped[k]] =
             srcRepo.files[result[p].filesSkipped[k]]
      /\ \A k \in DOMAIN generatedFiles :
           generatedFiles[k].content # "" =>
             \/ \E j \in DOMAIN result[p].filesGenerated :
                  result[p].filesGenerated[j] = generatedFiles[k].name
             \/ \E j \in DOMAIN result[p].filesSkipped :
                  result[p].filesSkipped[j] = generatedFiles[k].name

\* A first call that failed and a second that succeeded and published the
\* file set.
C10_Witness ==
  \E p \in procs :
    /\ SecondSucceeded(p) /\ pc[p] = "done"
    /\ outcomes[p] = <<FALSE>>
    /\ opts.force
    /\ TipTree["smithery.yaml"] = "new" /\ TipTree["README.md"] = "new"

\* The elements of a sequence.
Range(seq) == {seq[i] : i \in DOMAIN seq}

\* The paths of the file set's entries with non-empty content.
NonEmptyEntries == {generatedFiles[k].name :
                      k \in {i \in DOMAIN generatedFiles : generatedFiles[i].content # ""}}

\* C11: for every file set, the file materializer with force=false never
\* changes the content of a path that exists in the workspace; when its loop
\* completes, the written and the skipped paths are disjoint, together they
\* are exactly the entries with non-empty content, each listed once, and the
\* skipped ones are exactly the non-empty entries whose path existed before
\* (none when force is true).
C11_MaterializerFrame ==
  [][\A p \in procs :
       pc[p] = "materialize" /\ pc'[p] # "materialize" =>
         LET before == fs[tempDir[p]].files
             after == fs'[tempDir[p]].files
             written == filesGenerated'[p]
             skipped == filesSkipped'[p]
         IN /\ ~opts.force =>
                 \A f \in Paths : before[f] # NoFile => after[f] = before[f]
            /\ pc'[p] = AfterFiles =>
                 /\ Range(written) \cap Range(skipped) = {}
                 /\ Range(written) \cup Range(skipped) = NonEmptyEntries
                 /\ Len(written) + Len(skipped) = Cardinality(NonEmptyEntries)
                 /\ Range(skipped) =
                      IF opts.force THEN {}
                      ELSE {f \in NonEmptyEntries : before[f] # NoFile}
                 /\ \A f \in Range(written) : after[f] = FileSetContent(f)
                 /\ \A f \in Paths \ Range(written) : after[f] = before[f]]_vars

\* A file set of which one entry was skipped and one written, force=false.
C11_Witness ==
  \E p \in procs :
    /\ ~opts.force /\ pc[p] = AfterFiles /\ entry = "api"
    /\ filesSkipped[p] = <<"README.md">>
    /\ filesGenerated[p] = <<"smithery.yaml">>
    /\ fs[tempDir[p]].files["README.md"] = "init"
    /\ fs[tempDir[p]].files["smithery.yaml"] = "new"

\* deployFromGit has returned a failure, and files of the file set had been
\* written or skipped before.
FailedAfterFiles(p) ==
  /\ entry \in {"api", "git"}
  /\ pc[p] \in {"finally", "done"}
  /\ ~result[p].success
  /\ Len(filesGenerated[p]) + Len(filesSkipped[p]) > 0

\* C12 as stated: a deploy that fails after files of the file set were
\* written (a later write throwing, or a publish step failing) returns an
\* outcome that lists every file written and every file skipped before the
\* failure.
C12_Original ==
  \A p \in procs :
    FailedAfterFiles(p) =>
      /\ result[p].filesGenerated = filesGenerated[p]
      /\ result[p].filesSkipped = filesSkipped[p]

\* C12 as amended: a deploy that fails because pushToGitHub reported a
\* failure returns an outcome that lists every file written and every file
\* skipped; a deploy that fails because a step threw (a later file write
\* throwing) returns an outcome whose two lists are empty, whatever was
\* written before.
C12_PartialResults ==
  \A p \in procs :
    FailedAfterFiles(p) =>
      IF result[p].error[1] = "Failed to push: "
        THEN /\ result[p].filesGenerated = filesGenerated[p]
             /\ result[p].filesSkipped = filesSkipped[p]
        ELSE /\ result[p].error = <<"EACCES: permission denied, open">>
             /\ result[p].filesGenerated = << >>
             /\ result[p].filesSkipped = << >>

\* A push that failed at the tree after one file was written and one skipped.
C12_Witness ==
  \E p \in procs :
    /\ FailedAfterFiles(p) /\ pc[p] = "done"
    /\ LastCall(p) = Call("createTree", "", "throw")
    /\ result[p].filesGenerated = <<"smithery.yaml">>
    /\ result[p].filesSkipped = <<"README.md">>

\* The component a call belongs to: 1 the source fetcher, 2 the existence
\* check and the creation, 4 the commit publisher (3, the file materializer,
\* issues no call); 0 is the tool's token validation, which precedes them.
Component(c) ==
  CASE c.op \in {"getRepoInfo", "tarball", "gitClone"} -> 1
    [] c.op \in {"getRepo", "getUser", "createRepo"} -> 2
    [] c.op \in PublishOps \cup {"gitCommit", "gitPush"} -> 4
    [] OTHER -> 0

\* The existence check found the repository, or the creation succeeded.
GatePassed(p) ==
  \E i \in DOMAIN Calls(p) :
    Calls(p)[i].op \in {"getRepo", "createRepo"} /\ Calls(p)[i].res = "ok"

\* No call of an earlier component follows a call of a later one, the
\* existence check starts only after the fetch has returned, and the
\* publisher only after the gate has passed and the materializer is over.
ComponentsInOrder(p) ==
  /\ \A i, j \in DOMAIN Calls(p) :
       i < j => Component(Calls(p)[i]) <= Component(Calls(p)[j])
  /\ \A i \in DOMAIN Calls(p) :
       /\ Component(Calls(p)[i]) >= 2 => clone[p].outcome = "returned"
       /\ Component(Calls(p)[i]) = 4 => GatePassed(p) /\ pc[p] # "materialize"

\* C13 as stated: every attempt runs the source fetcher, then the existence
\* check (and the creation), then the file materializer, then the commit
\* publisher; no file of the file set is written before the gate has passed
\* and no earlier component runs again after a later one has started.
C13_Original ==
  \A p \in procs :
    /\ ComponentsInOrder(p)
    /\ (pc[p] = "materialize" \/ Len(filesGenerated[p]) > 0) => GatePassed(p)

\* C13 as amended: deployFromGit runs the source fetcher, then the existence
\* check (and the creation), then the file materializer, then the commit
\* publisher, and writes no file of the file set before the gate has passed;
\* the deploy_from_git tool handler runs the source fetcher, then the file
\* materializer, then the existence check (and the creation), then the
\* commit publisher, so it writes the files before the gate; in both, the
\* publisher starts only after the gate has passed and no earlier component
\* runs again after a later one has started.
C13_ComponentOrder ==
  \A p \in procs :
    /\ ComponentsInOrder(p)
    /\ entry # "tool" =>
         ((pc[p] = "materialize" \/ Len(filesGenerated[p]) > 0) => GatePassed(p))
    /\ entry = "tool" =>
         /\ pc[p] = "materialize" =>
              \A i \in DOMAIN Calls(p) : Component(Calls(p)[i]) < 2
         /\ (\E i \in DOMAIN Calls(p) : Component(Calls(p)[i]) = 2) =>
              pc[p] \notin {"validate", "clone", "materialize"}

\* A deployFromGit that fetched, created the repository, wrote a file and
\* published.
C13_Witness ==
  \E p \in procs :
    /\ entry = "api" /\ pc[p] = "done" /\ result[p].success
    /\ \E i \in DOMAIN Calls(p) : Calls(p)[i].op = "createRepo" /\ Calls(p)[i].res = "ok"
    /\ Calls(p)[1].op = "tarball"
    /\ Len(filesGenerated[p]) > 0
    /\ LastCall(p).op = "updateRef"

\* The paths a tree holds.
TreePaths(tree) == {f \in Paths : tree[f] # NoFile}

\* Process p's deploy was called with overwriting off and the file set
\* {README.md: "new"}, its publish started on a target branch that held a
\* README.md, and it has returned success.
ScenarioB(p) ==
  /\ entry = "api" /\ pc[p] \in {"finally", "done"}
  /\ generatedFiles = <<Entry("README.md", "new")>> /\ ~opts.force
  /\ push[p].startRefs[opts.targetBranch] # 0
  /\ commits[push[p].startRefs[opts.targetBranch]].tree["README.md"] # NoFile

\* C14 as stated, for a deploy that succeeds from a source that holds a
\* README.md as well: when the target branch holds README.md and deploy is
\* called with the file set {README.md: "new"} and overwriting off, the
\* outcome reports filesSkipped = [README.md] and the target branch still
\* points at the commit it pointed at before.
C14_Original ==
  \A p \in procs :
    (ScenarioB(p) /\ result[p].success /\ srcRepo.files["README.md"] # NoFile) =>
      /\ result[p].filesSkipped = <<"README.md">>
      /\ refs[opts.targetBranch] = push[p].startRefs[opts.targetBranch]

\* C14 as amended: when the fetched source holds README.md and deploy is
\* called with the file set {README.md: "new"} and overwriting off, the
\* outcome of a deploy that reached the publish reports
\* filesSkipped = [README.md] and no file written; a successful deploy has
\* moved the target branch to a new commit on top of the base commit, whose
\* README.md has the source's content and not "new"; a failed publish has
\* left every ref where it was.
C14_SkippedButCommitted ==
  \A p \in procs :
    (ScenarioB(p) /\ push[p].returned /\ srcRepo.files["README.md"] # NoFile) =>
      /\ result[p].filesSkipped = <<"README.md">>
      /\ result[p].filesGenerated = << >>
      /\ IF result[p].success
           THEN /\ refs[opts.targetBranch] = push[p].newCommitSha
                /\ refs[opts.targetBranch] # push[p].startRefs[opts.targetBranch]
                /\ TipTree["README.md"] = srcRepo.files["README.md"]
                /\ commits[refs[opts.targetBranch]].parents = <<push[p].baseSha>>
           ELSE refs = push[p].startRefs

\* The skipped README.md published with the source's content.
C14_Witness ==
  \E p \in procs :
    /\ ScenarioB(p) /\ result[p].success /\ pc[p] = "done"
    /\ result[p].filesSkipped = <<"README.md">>
    /\ push[p].startRefs["main"] = 1 /\ refs["main"] = 3
    /\ TipTree["README.md"] = "old" /\ TipTree["src/index.ts"] = "old"

\* Process p's deploy was called with a file set whose only non-empty entry
\* is smithery.yaml, found no repository, created it, and has returned.
ScenarioA(p) ==
  /\ entry = "api" /\ pc[p] \in {"finally", "done"}
  /\ NonEmptyEntries = {"smithery.yaml"}
  /\ opts.createIfNotExists
  /\ \E i \in DOMAIN Calls(p) : Calls(p)[i] \in
       {Call("createRepo", "/user/repos", "ok"), Call("createRepo", "/orgs/repos", "ok")}

\* C15 as stated, for a deploy that succeeds: when the target repository
\* does not exist, creation is on and the file set is {smithery.yaml:
\* non-empty}, the outcome reports filesWritten = [smithery.yaml] and the
\* target branch holds exactly the placeholder init file and smithery.yaml.
C15_Original ==
  \A p \in procs :
    (ScenarioA(p) /\ result[p].success) =>
      /\ result[p].filesGenerated = <<"smithery.yaml">>
      /\ TreePaths(TipTree) = {"README.md", "smithery.yaml"}

\* What the target branch holds after scenario A: the file set's
\* smithery.yaml if it was written, else every enumerated file of the
\* fetched source, else the placeholder init file.
ScenarioATree(p) ==
  [f \in Paths |->
     IF f \in Range(result[p].filesGenerated) THEN FileSetContent(f)
     ELSE IF srcRepo.files[f] # NoFile /\ Collected(f) THEN srcRepo.files[f]
     ELSE Tree1[f]]

\* C15 as amended: when the target repository does not exist, creation is on
\* and the file set is {smithery.yaml: non-empty}, a deploy that succeeds
\* reports filesWritten = [smithery.yaml], unless the fetched source holds a
\* smithery.yaml and overwriting is off, in which case it reports it as
\* skipped; the target branch afterwards holds the placeholder init file
\* (replaced by the source's file of that path, if it has one), every file
\* enumerated from the fetched source, and smithery.yaml, and no other path.
C15_NewRepository ==
  \A p \in procs :
    (ScenarioA(p) /\ result[p].success) =>
      /\ IF srcRepo.files["smithery.yaml"] # NoFile /\ ~opts.force
           THEN /\ result[p].filesGenerated = << >>
                /\ result[p].filesSkipped = <<"smithery.yaml">>
           ELSE /\ result[p].filesGenerated = <<"smithery.yaml">>
                /\ result[p].filesSkipped = << >>
      /\ refs[opts.targetBranch] \in DOMAIN commits
      /\ TipTree = ScenarioATree(p)
      /\ TreePaths(TipTree) =
           {"README.md", "smithery.yaml"} \cup
           {f \in Paths : srcRepo.files[f] # NoFile /\ Collected(f)}

\* A new repository that got the placeholder, the source's file and
\* smithery.yaml.
C15_Witness ==
  \E p \in procs :
    /\ ScenarioA(p) /\ result[p].success /\ pc[p] = "done"
    /\ result[p].filesGenerated = <<"smithery.yaml">>
    /\ TreePaths(TipTree) = {"README.md", "smithery.yaml", "src/index.ts"}
    /\ TipTree["README.md"] = "init" /\ TipTree["smithery.yaml"] = "new"

\* C16 as stated: a fetch called without a branch resolves the default branch
\* the service reports, and "main" whenever the lookup fails, by a non-OK
\* response or at the network level; a failed lookup never fails the fetch.
C16_Original ==
  \A p \in procs : \A i \in DOMAIN Calls(p) :
    (entry = "api" /\ opts.sourceBranch = "" /\ Calls(p)[i].op = "getRepoInfo") =>
      /\ clone[p].targetBranch =
           IF Calls(p)[i].res = "ok" THEN srcRepo.default_branch ELSE "main"
      /\ ~(clone[p].outcome = "threw" /\ i = Len(Calls(p)))

\* What the code does on C16's cases: the reported default branch on an OK
\* response, "main" on a non-OK response, and a failed fetch, with the
\* scratch directory removal attempted, when the lookup raises.
C16_LookupOutcomes ==
  \A p \in procs : \A i \in DOMAIN Calls(p) :
    (entry = "api" /\ opts.sourceBranch = "" /\ Calls(p)[i].op = "getRepoInfo") =>
      CASE Calls(p)[i].res = "ok" -> clone[p].targetBranch = srcRepo.default_branch
        [] Calls(p)[i].res = "notok" -> clone[p].targetBranch = "main"
        [] Calls(p)[i].res = "throw" ->
             /\ i = Len(Calls(p)) /\ clone[p].outcome = "threw"
             /\ result[p].error =
                  <<"Failed to download repository: ">> \o FetchFailedMsg

\* The service reported "dev" and the fetch downloaded "dev".
C16_Witness ==
  \E p \in procs :
    /\ entry = "api" /\ opts.sourceBranch = "" /\ Len(Calls(p)) > 1
    /\ Calls(p)[1] = Call("getRepoInfo", "", "ok")
    /\ clone[p].targetBranch = "dev" /\ clone[p].outcome = "returned"
    /\ Calls(p)[2] = Call("tarball", "dev", "ok")

\* The outcome of a missing repository with creation off.
NotExistMsg ==
  <<"Repository ", targetOwner, "/", targetRepo,
    " does not exist and createIfNotExists is false">>

\* C17: the existence probe never fails: it issues one read-only call and
\* changes nothing on the service; an OK response answers "exists" and the
\* orchestrator goes on, a non-OK response or a transport error answers
\* "does not exist" and the orchestrator goes to the creation, or returns
\* the missing-repository failure when creation is off; no exception reaches
\* the orchestrator's catch block.
C17_ProbeNeverFails ==
  [][\A p \in procs :
       pc[p] = "checkRepo" /\ pc'[p] # "checkRepo" =>
         LET c == calls'[p][Len(calls'[p])]
         IN /\ calls'[p] = Append(calls[p], c)
            /\ c.op = "getRepo"
            /\ UNCHANGED <<hostVars, fs>>
            /\ ~result'[p].threw
            /\ c.res = "ok" => pc'[p] = AfterGate /\ result'[p] = result[p]
            /\ c.res # "ok" =>
                 IF opts.createIfNotExists
                   THEN pc'[p] = "getUser" /\ result'[p] = result[p]
                   ELSE /\ pc'[p] = "finally"
                        /\ result'[p].error = NotExistMsg]_vars

\* A probe that met a transport error and answered "does not exist".
C17_Witness ==
  \E p \in procs :
    /\ Len(Calls(p)) > 0
    /\ LastCall(p) = Call("getRepo", targetRepo, "throw")
    /\ pc[p] = "getUser" /\ repoExists
    /\ result[p] = NoResult

\* The gate refused process p's attempt: the repository was reported missing
\* with creation off, or the creation failed.
GateRefused(p) ==
  \E i \in DOMAIN Calls(p) :
    \/ Calls(p)[i].op = "getRepo" /\ Calls(p)[i].res # "ok" /\ ~opts.createIfNotExists
    \/ Calls(p)[i] = Call("getUser", "", "throw")
    \/ Calls(p)[i].op = "createRepo" /\ Calls(p)[i].res # "ok"

\* C18: in deployFromGit the creation is attempted only after the existence
\* probe answered "does not exist" and only with creation on; when the probe
\* answered "does not exist" with creation off, or the creation failed, the
\* deploy returns success=false with empty lists of written and skipped
\* files, has written no file of the file set into the workspace and has
\* issued no publish call.
C18_CreationGate ==
  \A p \in procs :
    entry \in {"api", "git"} =>
      /\ \A i \in DOMAIN Calls(p) :
           Calls(p)[i].op \in {"getUser", "createRepo"} =>
             /\ opts.createIfNotExists
             /\ \E j \in Before(i) :
                  Calls(p)[j].op = "getRepo" /\ Calls(p)[j].res # "ok"
      /\ GateRefused(p) =>
           /\ pc[p] \in {"finally", "done"}
           /\ ~result[p].success /\ ~IsEmptyMsg(result[p].error)
           /\ result[p].filesGenerated = << >> /\ result[p].filesSkipped = << >>
           /\ filesGenerated[p] = << >> /\ filesSkipped[p] = << >>
           /\ fs[tempDir[p]].exists => fs[tempDir[p]].files = srcRepo.files
           /\ \A i \in DOMAIN Calls(p) : Component(Calls(p)[i]) # 4

\* A creation that the service refused, before any file was written.
C18_Witness ==
  \E p \in procs :
    /\ entry = "api" /\ pc[p] = "finally" /\ Len(Calls(p)) > 0
    /\ LastCall(p) = Call("createRepo", "/user/repos", "notok")
    /\ result[p].error = <<"Failed to create repository: ", ErrorBody>>
    /\ fs[tempDir[p]].exists /\ fs[tempDir[p]].files = srcRepo.files
    /\ Len(generatedFiles) > 0

\* The commits reachable from a commit through parents, itself included.
RECURSIVE Ancestors(_)
Ancestors(c) ==
  IF c \notin DOMAIN commits THEN {}
  ELSE {c} \cup UNION {Ancestors(commits[c].parents[i]) : i \in DOMAIN commits[c].parents}

\* C19: two attempts that run at the same time against the same target
\* branch are not kept apart, and the last writer wins: each successful ref
\* call leaves the branch at the commit of the attempt that made it,
\* wherever the branch was; so when both publishes have succeeded the branch
\* points at the commit of the attempt whose ref call came last, and the
\* branch never points at a commit that is neither the one it started at nor
\* one created by the two attempts.
C19_LastWriterWins ==
  /\ [][\A p \in procs :
          (pc[p] \in {"updateRef", "createRef"} /\ push'[p].success) =>
             /\ refs'[opts.targetBranch] = push[p].newCommitSha
             /\ \A b \in Branches \ {opts.targetBranch} : refs'[b] = refs[b]]_vars
  /\ [](\A p \in procs :
          /\ push[p].started =>
               refs[opts.targetBranch] \in
                 {push[p].startRefs[opts.targetBranch]} \cup
                 {push[q].newCommitSha : q \in procs}
          /\ (\A q \in procs : push[q].success) =>
               refs[opts.targetBranch] \in {push[q].newCommitSha : q \in procs} \ {0})

\* Both publishes ran at the same time and succeeded; the attempt that
\* created its commit first made its ref call last, and the branch is at its
\* commit.
C19_Witness ==
  /\ \A p \in procs : push[p].success /\ pc[p] = "done"
  /\ push[1].newCommitSha < push[2].newCommitSha
  /\ refs[opts.targetBranch] = push[1].newCommitSha
  /\ push[1].baseSha = push[2].baseSha

\* C20: the ref update of step 6 does not depend on where the branch is: the
\* commit of an attempt has the base commit read in step 1 as its only
\* parent, also when another writer moved the branch in between, and once
\* the attempt's update has succeeded the other writer's commit is not
\* reachable from the branch unless it was reachable from that base commit.
C20_ForcedUpdate ==
  \A p \in procs :
    push[p].newCommitSha # 0 =>
      /\ commits[push[p].newCommitSha].parents = <<push[p].baseSha>>
      /\ commits[push[p].newCommitSha].tree = push[p].treeSha
      /\ refs[opts.targetBranch] = push[p].newCommitSha =>
           \A q \in procs \ {p} :
             (push[q].newCommitSha # 0 /\
              push[q].newCommitSha \notin Ancestors(push[p].baseSha)) =>
                push[q].newCommitSha \notin Ancestors(refs[opts.targetBranch])

\* The other writer moved the branch after this attempt had read its base
\* commit; this attempt's update succeeded all the same and dropped the other
\* writer's commit from the branch.
C20_Witness ==
  \E p, q \in procs :
    /\ p # q /\ push[p].success /\ push[q].success
    /\ push[p].baseSha = 1 /\ push[q].baseSha = 1
    /\ refs[opts.targetBranch] = push[p].newCommitSha
    /\ Ancestors(refs[opts.targetBranch]) = {1, push[p].newCommitSha}
    /\ push[q].newCommitSha \in DOMAIN commits
    /\ LastCall(p) = Call("updateRef", opts.targetBranch, "ok")

\* The scratch directory a live attempt holds: the one its fetch created,
\* until the fetch failed and gave it up or the call returned.
Workspace(p) ==
  IF p \in procs /\ pc[p] # "done" /\ clone[p].tempDir # 0 /\ clone[p].outcome # "threw"
    THEN clone[p].tempDir ELSE 0

\* The process whose step this is.
Acts(p) == pc'[p] # pc[p]

\* C21: attempts that run at the same time never share a scratch workspace:
\* the directory a fetch creates did not exist before and is held by no other
\* live attempt, two live attempts never hold the same directory, and a step
\* of an attempt (its writes, its fetch's removal, its cleanup) changes no
\* directory other than the attempt's own.
C21_DistinctWorkspaces ==
  /\ [](\A p, q \in procs :
          (p # q /\ Workspace(p) # 0 /\ Workspace(q) # 0) =>
             Workspace(p) # Workspace(q))
  /\ [](\A p \in procs :
          /\ Workspace(p) # 0 => fs[Workspace(p)].exists
          /\ (pc[p] # "done" /\ tempDir[p] # 0) => tempDir[p] = Workspace(p))
  /\ [][\A p \in procs :
          /\ (Acts(p) /\ pc[p] = "clone" /\ clone'[p].tempDir # 0) =>
               /\ ~fs[clone'[p].tempDir].exists
               /\ \A q \in procs \ {p} : Workspace(q) # clone'[p].tempDir
          /\ Acts(p) =>
               \A d \in DirNames :
                 fs'[d] # fs[d] => d = clone'[p].tempDir
          /\ (Acts(p) /\ pc[p] = "finally") =>
               \A d \in DirNames :
                 fs'[d] # fs[d] => (d = tempDir[p] /\ ~fs'[d].exists)]_vars

\* Two attempts held two directories at the same time; one has returned and
\* its cleanup removed its directory, the other's directory is still there
\* with the fetched files and the generated file in it.
C21_Witness ==
  /\ pc[1] = "done" /\ cleanup[1] = "removed"
  /\ tempDir[1] # 0 /\ ~fs[tempDir[1]].exists
  /\ Workspace(2) # 0 /\ Workspace(2) # tempDir[1]
  /\ pc[2] = "getRef"
  /\ fs[Workspace(2)].files["smithery.yaml"] = "new"
  /\ fs[Workspace(2)].files["README.md"] = "init"

\* Call j of process p repeats its earlier call i: the same request to the
\* same address.
SameCall(p, i, j) ==
  /\ i < j
  /\ Calls(p)[i].op = Calls(p)[j].op
  /\ Calls(p)[i].arg = Calls(p)[j].arg

\* How many calls of process p are the request op.
Issued(p, op) == Cardinality({i \in DOMAIN Calls(p) : Calls(p)[i].op = op})

\* Each enumerated file has at most one blob call, and the tree call and the
\* commit call are issued at most once.
OncePerStep(p) ==
  /\ \A i, j \in DOMAIN Calls(p) :
       (Calls(p)[i].op = "createBlob" /\ SameCall(p, i, j)) => FALSE
  /\ Issued(p, "createTree") <= 1
  /\ Issued(p, "createCommit") <= 1

\* C22: nothing is retried inside one deploy call: once a hosting-service
\* call has failed, the same call is not issued again in that attempt; each
\* enumerated file gets at most one blob-creation call, and tree creation and
\* commit creation are each issued at most once.
C22_Original ==
  \A p \in procs :
    /\ \A i, j \in DOMAIN Calls(p) :
         (Calls(p)[i].res # "ok") => ~SameCall(p, i, j)
    /\ OncePerStep(p)

\* What holds of the code: the only call issued again after it failed is the
\* ref lookup of step 1, when the target branch is main or master and the
\* fallback probe asks for the same ref; everything else is issued once.
C22_NoRetryButBaseLookup ==
  \A p \in procs :
    /\ \A i, j \in DOMAIN Calls(p) :
         (Calls(p)[i].res # "ok" /\ SameCall(p, i, j)) =>
            /\ Calls(p)[i].op = "getRef"
            /\ Calls(p)[i].arg = opts.targetBranch
            /\ opts.targetBranch \in {"main", "master"}
            /\ i = 1 + Cardinality({k \in DOMAIN Calls(p) : Calls(p)[k].op \notin PublishOps})
    /\ OncePerStep(p)

\* The lookup of refs/heads/main failed, the same lookup was issued again and
\* answered, and the deployment went on to succeed.
C22_Witness ==
  \E p \in procs :
    /\ result[p].success /\ pc[p] = "done"
    /\ \E i \in DOMAIN Calls(p) :
         /\ i + 1 \in DOMAIN Calls(p)
         /\ Calls(p)[i] = Call("getRef", "main", "notok")
         /\ Calls(p)[i + 1] = Call("getRef", "main", "ok")

\* C23: the cleanup of the scratch workspace is fail-soft: the finally block
\* hands the caller the outcome that was built before it, success flag and
\* error detail, whether the removal of the directory worked or raised an
\* error; a failed removal never turns into an exception or a failure.
C23_CleanupFailSoft ==
  [][\A p \in procs :
       (pc[p] = "finally" /\ pc'[p] = "done") =>
          /\ result'[p] = result[p]
          /\ ~result'[p].threw
          /\ cleanup'[p] \in {"removed", "failed"} <=> tempDir[p] # 0]_vars

\* The removal of the scratch directory failed, the directory is still
\* there, and the caller received the success outcome.
C23_Witness ==
  \E p \in procs :
    /\ pc[p] = "done" /\ cleanup[p] = "failed"
    /\ tempDir[p] # 0 /\ fs[tempDir[p]].exists
    /\ result[p].success /\ ~result[p].threw /\ IsEmptyMsg(result[p].error)

\* The three URL forms of an owner and a repository name.
BrowseForm(o, r) == <<"https:", "/", "/", "github.com", "/">> \o o \o <<"/">> \o r \o <<".git">>
SshForm(o, r) == <<"git@", "github.com", ":">> \o o \o <<"/">> \o r \o <<".git">>
BareForm(o, r) == <<"https:", "/", "/", "github.com", "/">> \o o \o <<"/">> \o r

\* The owners and repository names of the URLs of the model.
OwnerNames == {<<"acme">>}
RepoNames == {<<"widget">>, <<"widget", ".", "js">>}

Forms(o, r) == {BrowseForm(o, r), SshForm(o, r), BareForm(o, r)}
ValidUrls == UNION {Forms(o, r) : o \in OwnerNames, r \in RepoNames}

\* The process has run the first step of cloneRepository.
Parsed(p) == pc[p] # "clone"

\* C24: for every valid URL in browse form, SSH form or bare web form
\* parseGitUrl returns the owner and the repository name without the .git
\* suffix, and for every other string it returns null and the fetch fails
\* with the invalid-URL error.
C24_Original ==
  \A p \in procs :
    LET url == opts.sourceRepoUrl
    IN /\ \A o \in OwnerNames, r \in RepoNames :
            url \in Forms(o, r) =>
               parseGitUrl(url) = [matched |-> TRUE, owner |-> o, repo |-> r]
       /\ url \notin ValidUrls =>
            /\ parseGitUrl(url) = Null
            /\ Parsed(p) =>
                 /\ clone[p].tempDir = 0
                 /\ result[p].error = InvalidUrlMsg(url)

\* What holds of the code: the three forms give the owner and the
\* repository name, and a URL that parses to null fails the fetch with the
\* invalid-URL error before anything is created or requested.
C24_ValidForms ==
  \A p \in procs :
    LET url == opts.sourceRepoUrl
    IN /\ \A o \in OwnerNames, r \in RepoNames :
            url \in Forms(o, r) =>
               /\ parseGitUrl(url) = [matched |-> TRUE, owner |-> o, repo |-> r]
               /\ Parsed(p) => clone[p].parsed = parseGitUrl(url)
       /\ (parseGitUrl(url) = Null /\ Parsed(p)) =>
            /\ clone[p].tempDir = 0 /\ \A d \in DirNames : ~fs[d].exists
            /\ Calls(p) = << >>
            /\ ~result[p].success /\ result[p].error = InvalidUrlMsg(url)

\* A URL of another host, https://notgithub.com/acme/widget, was parsed as
\* the GitHub repository acme/widget, and the fetch went on to its download.
C24_Witness ==
  \E p \in procs :
    /\ opts.sourceRepoUrl =
         <<"https:", "/", "/", "not", "github.com", "/", "acme", "/", "widget">>
    /\ clone[p].parsed = [matched |-> TRUE, owner |-> <<"acme">>, repo |-> <<"widget">>]
    /\ clone[p].tempDir # 0 /\ pc[p] = "download"

\* The hosting-service requests of a deployment proper.
DeployOps ==
  PublishOps \cup {"getRepoInfo", "tarball", "gitClone", "getRepo", "getUser",
                   "createRepo", "gitCommit", "gitPush"}

\* No scratch directory was created and no request of a deployment issued.
NothingAttempted(p) ==
  /\ tempDir[p] = 0 /\ clone[p].tempDir = 0
  /\ \A d \in DirNames : ~fs[d].exists
  /\ \A i \in DOMAIN Calls(p) : Calls(p)[i].op \notin DeployOps

\* C25: the credential check runs before the deployment: in the
\* deploy_from_git tool, when the token is missing or validateGitHubToken
\* reports it invalid, the tool returns an error and never creates a scratch
\* directory nor issues a fetch, existence, creation or publish call; and the
\* answer of validateGitHubToken is valid, with the login of the identity,
\* exactly when the identity lookup answered OK.
C25_CredentialCheckFirst ==
  /\ [](\A p \in procs :
          entry = "tool" =>
            /\ (pc[p] = "validate" \/ opts.githubToken = "") => NothingAttempted(p)
            /\ (Len(Calls(p)) > 0 /\ Calls(p)[1].res # "ok") =>
                 /\ NothingAttempted(p)
                 /\ Len(Calls(p)) = 1
                 /\ ~result[p].success /\ ~IsEmptyMsg(result[p].error)
                 /\ pc[p] \in {"finally", "done"}
            /\ Len(Calls(p)) > 0 => Calls(p)[1].op = "validateToken")
  /\ [][\A p \in procs :
          (pc[p] = "validate" /\ pc'[p] # "validate" /\ opts.githubToken # "") =>
             LET c == Calls(p)'[1]
                 v == validateGitHubToken(c.res, c.arg)
             IN /\ v.valid <=> c.res = "ok"
                /\ v.valid => v.username = c.arg /\ c.arg # ""
                /\ pc'[p] = "clone" <=> v.valid]_vars

\* The identity lookup answered non-OK; the tool has returned its
\* invalid-token error with nothing created and nothing else requested.
C25_Witness ==
  \E p \in procs :
    /\ entry = "tool" /\ pc[p] = "done"
    /\ Calls(p) = <<Call("validateToken", "", "notok")>>
    /\ result[p].error = <<"Invalid GitHub token: ", "Invalid or expired token">>
    /\ NothingAttempted(p)

RefLookups(p) == SelectSeq(Calls(p), LAMBDA c : c.op = "getRef")

\* C27: step 1 picks the base in a fixed priority: the target branch is
\* looked up first and, when that lookup succeeds, its tip is the base and
\* neither main nor master is probed; otherwise main is probed and its tip
\* is the base when it is found, also when master exists; master is probed
\* only after main was not found; and the base tree is the tree of the base
\* commit that was picked.
C27_BasePriority ==
  \A p \in procs :
    LET look == RefLookups(p)
        n == Len(look)
    IN entry = "api" =>
         /\ n <= 3
         /\ n >= 1 => look[1].arg = opts.targetBranch
         /\ n >= 2 => look[1].res = "notok" /\ look[2].arg = "main"
         /\ n >= 3 => look[2].res = "notok" /\ look[3].arg = "master"
         /\ push[p].baseSha # 0 <=> (n >= 1 /\ look[n].res = "ok")
         /\ push[p].baseSha # 0 =>
              /\ push[p].baseSha \in {r[look[n].arg] : r \in RefsLeftAlone(p)}
              /\ \A i \in DOMAIN Calls(p) :
                   Calls(p)[i] = Call("getCommit", "", "ok") =>
                      push[p].baseTreeSha = commits[push[p].baseSha].tree

\* The target branch dev was not found, main and master both exist with
\* different tips; main was probed and taken, master was never probed, and
\* the base tree is the tree of main's tip.
C27_Witness ==
  \E p \in procs :
    /\ opts.targetBranch = "dev"
    /\ push[p].startRefs = [NoRefs EXCEPT !["main"] = 1, !["master"] = 2]
    /\ RefLookups(p) = <<Call("getRef", "dev", "notok"), Call("getRef", "main", "ok")>>
    /\ push[p].baseSha = 1 /\ push[p].baseTreeSha = Tree1
    /\ pc[p] = "blob"

\* The error of a publish whose PATCH and POST of the ref were both refused.
RefUpdateFailedMsg == <<"Failed to update/create branch: ", ErrorBody>>

\* C28: step 6 first asks for a forced update of the target branch ref to
\* the new commit; the ref-creation call is issued only right after that
\* update was refused; the publish succeeds when either call succeeds and
\* fails with the ref-update error only when both were refused. When the
\* target branch did not exist at the start, a successful publish leaves the
\* branch existing and pointing at the new commit.
C28_UpdateThenCreate ==
  \A p \in procs :
    LET b == opts.targetBranch
        n == Len(Calls(p))
    IN entry = "api" =>
         /\ \A i \in DOMAIN Calls(p) :
              /\ Calls(p)[i].op = "updateRef" =>
                   /\ i > 1 /\ Calls(p)[i - 1] = Call("createCommit", "", "ok")
                   /\ Calls(p)[i].arg = b
              /\ Calls(p)[i].op = "createRef" =>
                   /\ i > 1 /\ Calls(p)[i - 1] = Call("updateRef", b, "notok")
                   /\ Calls(p)[i].arg = b
              /\ (Calls(p)[i].op \in RefOps /\ Calls(p)[i].res = "ok") =>
                   /\ i = n
                   /\ push[p].success
                   /\ refs[b] = push[p].newCommitSha
         /\ push[p].success =>
              /\ n > 0 /\ Calls(p)[n].op \in RefOps /\ Calls(p)[n].res = "ok"
              /\ push[p].startRefs[b] = 0 =>
                   /\ refs[b] = push[p].newCommitSha
                   /\ refs[b] \in DOMAIN commits
         /\ (push[p].returned /\ push[p].error = RefUpdateFailedMsg) =>
              /\ n > 1
              /\ Calls(p)[n - 1] = Call("updateRef", b, "notok")
              /\ Calls(p)[n] = Call("createRef", b, "notok")
         /\ (pc[p] = "createRef") =>
              (n > 0 /\ Calls(p)[n] = Call("updateRef", b, "notok"))

\* The target branch dev did not exist: the PATCH was refused, the POST
\* created the ref, the publish succeeded and dev points at the new commit.
C28_Witness ==
  \E p \in procs :
    /\ opts.targetBranch = "dev" /\ push[p].startRefs["dev"] = 0
    /\ push[p].success /\ result[p].success
    /\ Len(Calls(p)) > 1
    /\ Calls(p)[Len(Calls(p)) - 1] = Call("updateRef", "dev", "notok")
    /\ LastCall(p) = Call("createRef", "dev", "ok")
    /\ refs["dev"] = push[p].newCommitSha /\ refs["dev"] # 0

\* Step 1 found no base: the three ref lookups were each answered, none OK.
NoBaseFound(p) ==
  /\ Len(RefLookups(p)) = 3
  /\ \A i \in 1..3 : RefLookups(p)[i].res = "notok"

\* The commits the publish of process p created.
CreatedBy(p) == IF push[p].newCommitSha = 0 THEN {} ELSE {push[p].newCommitSha}

\* C29 as stated: the commit created in step 5 has at most one parent, the
\* base commit of step 1 when there is one; and when no base was found the
\* publish still goes on to its commit, created without a parent, instead of
\* being given up for lack of a base.
C29_Original ==
  \A p \in procs :
    entry = "api" =>
      /\ \A c \in CreatedBy(p) :
           /\ Len(commits[c].parents) <= 1
           /\ push[p].baseSha # 0 => commits[c].parents = <<push[p].baseSha>>
           /\ push[p].baseSha = 0 => commits[c].parents = << >>
      /\ NoBaseFound(p) => ~(push[p].returned /\ push[p].error = NoBaseBranchMsg)

\* C29: the commit created in step 5 has exactly one parent, the base commit
\* resolved in step 1; when step 1 finds no base, no commit is created: the
\* publish fails with the no-base-branch error before any commit call.
C29_SingleParent ==
  \A p \in procs :
    entry = "api" =>
      /\ \A c \in CreatedBy(p) :
           /\ commits[c].parents = <<push[p].baseSha>>
           /\ push[p].baseSha # 0
           /\ push[p].baseSha \in {r[RefLookups(p)[Len(RefLookups(p))].arg] :
                                     r \in RefsLeftAlone(p)}
           /\ commits[c].tree = push[p].treeSha
      /\ NoBaseFound(p) =>
           /\ CreatedBy(p) = {}
           /\ Issued(p, "createCommit") = 0
           /\ push[p].returned /\ ~push[p].success
           /\ push[p].error = NoBaseBranchMsg
      /\ Issued(p, "createCommit") > 0 => push[p].baseSha # 0

\* The target branch dev was not found and main was taken as base: the new
\* commit has main's tip as its only parent.
C29_Witness ==
  \E p \in procs :
    /\ entry = "api" /\ opts.targetBranch = "dev"
    /\ push[p].startRefs["dev"] = 0 /\ push[p].startRefs["main"] = 1
    /\ CreatedBy(p) # {}
    /\ commits[push[p].newCommitSha].parents = <<1>>
    /\ push[p].success


\* ------------------------------------------------ what a publish uploads

\* The directory and file names the enumeration is said to leave out.
ListedDirs == {".git", "node_modules", "__pycache__", ".venv", "venv",
               ".pytest_cache", "dist", ".next", "coverage"}
ListedFiles == {".DS_Store", "Thumbs.db"}

\* The regular files of a directory that lie under no listed directory, at
\* any depth, and carry no listed file name.
Publishable(files) ==
  {f \in Paths :
     /\ files[f] \notin {NoFile, Symlink}
     /\ \A i \in 1..(Len(Segments(f)) - 1) : Segments(f)[i] \notin ListedDirs
     /\ Segments(f)[Len(Segments(f))] \notin ListedFiles}

\* Process p's publish has uploaded a blob for every file it enumerated, and
\* its workspace is still there.
BlobsUploaded(p) ==
  /\ entry = "api" /\ tempDir[p] # 0 /\ fs[tempDir[p]].exists /\ cleanup[p] = ""
  /\ push[p].filesToUpload # << >>
  /\ Len(push[p].treeItems) = Len(push[p].filesToUpload)

\* The paths of the blobs process p's publish was answered OK for.
UploadedPaths(p) ==
  {Calls(p)[i].arg : i \in {j \in DOMAIN Calls(p) :
                              Calls(p)[j].op = "createBlob" /\ Calls(p)[j].res = "ok"}}

\* The content process p's publish uploaded for path f.
UploadedContent(p, f) ==
  push[p].treeItems[CHOOSE i \in DOMAIN push[p].treeItems :
                      push[p].treeItems[i].path = f].sha

\* C30: the enumeration holds every regular file of the workspace except
\* those under a directory named .git, node_modules, __pycache__, .venv, venv,
\* .pytest_cache, dist, .next or coverage at any depth and those named
\* .DS_Store or Thumbs.db; the uploaded paths are exactly the enumeration,
\* each with the workspace's content, so that every such file of the fetched
\* source is uploaded whether or not the file set names it, and a file-set
\* entry that was skipped or is empty is uploaded only if the source had the
\* file, and then with the source's content.
C30_UploadIsEnumeration ==
  \A p \in procs :
    /\ (entry = "api" /\ tempDir[p] # 0 /\ fs[tempDir[p]].exists
        /\ cleanup[p] = "" /\ push[p].filesToUpload # << >>) =>
         Range(push[p].filesToUpload) = Publishable(fs[tempDir[p]].files)
    /\ BlobsUploaded(p) =>
         /\ UploadedPaths(p) = Publishable(fs[tempDir[p]].files)
         /\ {push[p].treeItems[i].path : i \in DOMAIN push[p].treeItems}
              = UploadedPaths(p)
         /\ \A f \in UploadedPaths(p) :
              UploadedContent(p, f) = fs[tempDir[p]].files[f]
         /\ Publishable(srcRepo.files) \subseteq UploadedPaths(p)
         /\ \A n \in DOMAIN generatedFiles :
              LET e == generatedFiles[n]
              IN (e.content = "" \/ e.name \in Range(filesSkipped[p])) =>
                   /\ e.name \in UploadedPaths(p) <=>
                        e.name \in Publishable(srcRepo.files)
                   /\ e.name \in UploadedPaths(p) =>
                        UploadedContent(p, e.name) = srcRepo.files[e.name]

\* A publish that succeeded from a workspace holding a nested build
\* directory, a dependency directory, a noise file and a symbolic link: it
\* uploaded README.md, smithery.yaml and src/index.ts only, smithery.yaml
\* skipped by the materializer and README.md empty in the file set, both
\* with the source's content.
C30_Witness ==
  \E p \in procs :
    /\ BlobsUploaded(p) /\ push[p].returned /\ push[p].success
    /\ fs[tempDir[p]].files["src/dist/out.js"] = "old"
    /\ fs[tempDir[p]].files["node_modules/dep.js"] = "old"
    /\ fs[tempDir[p]].files[".DS_Store"] = "old"
    /\ fs[tempDir[p]].files["CHANGELOG.md"] = Symlink
    /\ UploadedPaths(p) = {"README.md", "smithery.yaml", "src/index.ts"}
    /\ filesSkipped[p] = <<"smithery.yaml">>
    /\ UploadedContent(p, "smithery.yaml") = "old"
    /\ UploadedContent(p, "README.md") = "init"
    /\ TreePaths(commits[refs[opts.targetBranch]].tree)
         = {"README.md", "smithery.yaml", "src/index.ts"}


\* ------------------------------------------------------ the tree request

\* Process p's publish is about to send, or has sent, its tree request.
TreeRequested(p) ==
  /\ entry = "api"
  /\ \/ pc[p] = "tree"
     \/ \E i \in DOMAIN Calls(p) : Calls(p)[i].op = "createTree"

\* C31: a publish sends at most one tree request; the request names the base
\* commit's tree as base_tree and holds one entry per enumerated file, in
\* pairwise distinct paths, each with mode 100644, type blob and the id the
\* file's blob call returned; every entry's path has a blob call answered OK.
C31_TreeRequest ==
  \A p \in procs :
    /\ Cardinality({i \in DOMAIN Calls(p) : Calls(p)[i].op = "createTree"}) <= 1
    /\ TreeRequested(p) =>
         LET req == TreeRequest(p)
         IN /\ push[p].baseSha \in DOMAIN commits
            /\ req.base_tree = commits[push[p].baseSha].tree
            /\ Len(req.tree) = Len(push[p].filesToUpload)
            /\ \A i \in DOMAIN req.tree :
                 /\ req.tree[i].path = push[p].filesToUpload[i]
                 /\ req.tree[i].mode = "100644"
                 /\ req.tree[i].type = "blob"
                 /\ req.tree[i].sha \in blobs
                 /\ (fs[tempDir[p]].exists /\ cleanup[p] = "") =>
                      req.tree[i].sha = fs[tempDir[p]].files[req.tree[i].path]
                 /\ Call("createBlob", req.tree[i].path, "ok") \in Range(Calls(p))
            /\ \A i, j \in DOMAIN req.tree :
                 req.tree[i].path = req.tree[j].path => i = j

\* A tree request answered OK that held three entries over the base tree.
C31_Witness ==
  \E p \in procs :
    /\ TreeRequested(p) /\ pc[p] = "commit"
    /\ Len(TreeRequest(p).tree) = 3
    /\ TreeRequest(p).base_tree = Tree1
    /\ push[p].treeSha \in trees
    /\ \A i \in DOMAIN TreeRequest(p).tree :
         push[p].treeSha[TreeRequest(p).tree[i].path] = TreeRequest(p).tree[i].sha


\* -------------------------------------------------------- the blob loop

\* The blob calls of process p, in the order they were issued.
BlobCalls(p) == SelectSeq(Calls(p), LAMBDA c : c.op = "createBlob")

\* C32: blob calls are issued one at a time in enumeration order: the n-th
\* blob call is for the n-th enumerated file, every blob call before the last
\* one issued was answered OK, and the tree entries recorded so far are those
\* of the files whose call was answered OK, in that order.
C32_BlobsInOrder ==
  \A p \in procs :
    entry = "api" =>
      /\ Len(BlobCalls(p)) <= Len(push[p].filesToUpload)
      /\ \A n \in DOMAIN BlobCalls(p) :
           /\ BlobCalls(p)[n].arg = push[p].filesToUpload[n]
           /\ n < Len(BlobCalls(p)) => BlobCalls(p)[n].res = "ok"
      /\ Len(push[p].treeItems) =
           Cardinality({n \in DOMAIN BlobCalls(p) : BlobCalls(p)[n].res = "ok"})
      /\ \A n \in DOMAIN push[p].treeItems :
           /\ push[p].treeItems[n].path = push[p].filesToUpload[n]
           /\ BlobCalls(p)[n] = Call("createBlob", push[p].filesToUpload[n], "ok")

\* Three files enumerated, the first two blob calls answered OK and the third
\* refused: two entries recorded, and the publish has returned its failure.
C32_Witness ==
  \E p \in procs :
    /\ entry = "api" /\ Len(push[p].filesToUpload) = 3
    /\ Len(BlobCalls(p)) = 3
    /\ BlobCalls(p)[1].res = "ok" /\ BlobCalls(p)[2].res = "ok"
    /\ BlobCalls(p)[3].res = "notok"
    /\ Len(push[p].treeItems) = 2
    /\ push[p].returned /\ ~push[p].success


\* ------------------------------------------- a repository just created

\* The deploy of process p created the target repository.
CreatedTarget(p) ==
  \E i \in DOMAIN Calls(p) : Calls(p)[i].op = "createRepo" /\ Calls(p)[i].res = "ok"

GateCalls(p) == SelectSeq(Calls(p), LAMBDA c : c.op \in {"getUser", "createRepo"})

\* The identity lookup of process p's creation failed: it was refused or
\* raised a transport error.
UserLookupFailed(p) ==
  \E i \in DOMAIN Calls(p) : Calls(p)[i].op = "getUser" /\ Calls(p)[i].res # "ok"

\* C34 as stated: creation posts to the user endpoint exactly when the
\* login of the authenticated identity equals the target owner and to the
\* organization endpoint otherwise, issues one creation request at most, and
\* after a failed identity lookup or a rejected request it has not created
\* the repository: the deploy ends in a failure outcome, never in an
\* exception.
C34_Original ==
  \A p \in procs :
    entry = "api" =>
      /\ Issued(p, "createRepo") <= 1
      /\ \A i \in DOMAIN GateCalls(p) :
           GateCalls(p)[i].op = "createRepo" =>
             /\ i = 2 /\ GateCalls(p)[1].op = "getUser"
             /\ GateCalls(p)[i].arg = "/user/repos" <=>
                  GateCalls(p)[1] = Call("getUser", targetOwner, "ok")
      /\ UserLookupFailed(p) => ~CreatedTarget(p)
      /\ (UserLookupFailed(p) /\ pc[p] = "done") =>
           ~result[p].threw /\ ~result[p].success
      /\ ~result[p].threw

\* What holds of the code: the endpoint is the user endpoint exactly when the
\* lookup returned the target owner as login, and the organization endpoint
\* also when the lookup was refused; at most one creation request is issued,
\* and none after a lookup that raised a transport error; a rejected creation
\* request ends the deploy with a failure outcome; no exception escapes.
C34_EndpointChoice ==
  \A p \in procs :
    entry = "api" =>
      /\ Issued(p, "createRepo") <= 1 /\ Issued(p, "getUser") <= 1
      /\ \A i \in DOMAIN GateCalls(p) :
           GateCalls(p)[i].op = "createRepo" =>
             /\ i = 2 /\ GateCalls(p)[1].op = "getUser"
             /\ GateCalls(p)[1].res # "throw"
             /\ GateCalls(p)[i].arg = "/user/repos" <=>
                  GateCalls(p)[1] = Call("getUser", targetOwner, "ok")
             /\ (GateCalls(p)[i].res # "ok" /\ pc[p] = "done") =>
                  /\ ~result[p].success /\ ~IsEmptyMsg(result[p].error)
                  /\ result[p].error[1] = "Failed to create repository: "
      /\ ~result[p].threw

\* A refused identity lookup followed by a creation on the organization
\* endpoint that was answered OK, in a deploy that went on to succeed.
C34_Witness ==
  \E p \in procs :
    /\ entry = "api" /\ pc[p] = "done" /\ result[p].success
    /\ GateCalls(p) = <<Call("getUser", "", "notok"),
                        Call("createRepo", "/orgs/repos", "ok")>>


\* ------------------------------------------------ entries without content

\* The paths of the file set's entries whose content is empty.
EmptyEntries == {generatedFiles[k].name :
                   k \in {i \in DOMAIN generatedFiles : generatedFiles[i].content = ""}}

\* C35: the file materializer ignores the entries of the file set whose
\* content is empty: whatever force is, it leaves the path as it was, a file
\* that exists there included, and the path is in neither the written nor the
\* skipped list, in the materializer's own lists and in the outcome.
C35_EmptyEntriesIgnored ==
  /\ [](\A p \in procs : \A f \in EmptyEntries :
          /\ f \notin Range(filesGenerated[p]) \cup Range(filesSkipped[p])
          /\ f \notin Range(result[p].filesGenerated) \cup Range(result[p].filesSkipped))
  /\ [][\A p \in procs :
          pc[p] = "materialize" /\ pc'[p] # "materialize" =>
            \A f \in EmptyEntries :
              fs'[tempDir[p]].files[f] = fs[tempDir[p]].files[f]]_vars

\* With force on, a file set whose README.md entry is empty met a workspace
\* that holds a README.md: smithery.yaml was overwritten, README.md kept its
\* content and is in neither list.
C35_Witness ==
  \E p \in procs :
    /\ entry = "api" /\ opts.force /\ pc[p] = AfterFiles
    /\ generatedFiles = <<Entry("smithery.yaml", "new"), Entry("README.md", "")>>
    /\ srcRepo.files["README.md"] = "init"
    /\ fs[tempDir[p]].files["README.md"] = "init"
    /\ fs[tempDir[p]].files["smithery.yaml"] = "new"
    /\ filesGenerated[p] = <<"smithery.yaml">> /\ filesSkipped[p] = << >>


\* ------------------------------------------------- the refs left alone

\* The step is a call of process p's publish.
PublishCall(p) ==
  /\ Len(calls'[p]) = Len(calls[p]) + 1
  /\ calls'[p][Len(calls'[p])].op \in PublishOps

\* The branch whose tip process p's publish took as its base.
BaseBranch(p) == RefLookups(p)[Len(RefLookups(p))].arg

\* C36: no call of a publish moves a ref other than the target branch; when
\* the target branch was missing and the base was taken from main or master,
\* that branch still points at the base commit while and after the publish
\* runs, whether it succeeds or fails.
C36_OnlyTargetBranchMoves ==
  /\ [][\A p \in procs : PublishCall(p) =>
          \A b \in Branches \ {opts.targetBranch} : refs'[b] = refs[b]]_vars
  /\ [](\A p \in procs :
          (entry = "api" /\ push[p].baseSha # 0
           /\ BaseBranch(p) # opts.targetBranch) =>
             /\ BaseBranch(p) \in {"main", "master"}
             /\ refs[BaseBranch(p)] = push[p].baseSha)

\* The target branch dev was missing, the base was main's tip, and the
\* publish created dev at its new commit: main is where it was.
C36_Witness ==
  \E p \in procs :
    /\ entry = "api" /\ opts.targetBranch = "dev" /\ push[p].startRefs["dev"] = 0
    /\ push[p].returned /\ push[p].success
    /\ push[p].baseSha # 0 /\ BaseBranch(p) = "main"
    /\ refs["main"] = push[p].startRefs["main"] /\ refs["main"] = push[p].baseSha
    /\ refs["dev"] = push[p].newCommitSha


\* --------------------------------------- the parent of the new tip

\* Process p's publish succeeded on a target whose target branch existed
\* when the publish started.
SucceededOnExistingBranch(p) ==
  /\ entry = "api" /\ push[p].returned /\ push[p].success
  /\ push[p].startRefs[opts.targetBranch] # 0
  /\ push[p].newCommitSha \in DOMAIN commits

\* C37 as stated: when a publish succeeds on a target whose target branch
\* existed before the attempt, the parent of the new tip is the commit the
\* target branch pointed at when the attempt started, also when the lookup of
\* the target branch was answered non-OK although the branch exists.
C37_Original ==
  \A p \in procs :
    SucceededOnExistingBranch(p) =>
      /\ refs[opts.targetBranch] = push[p].newCommitSha
      /\ commits[push[p].newCommitSha].parents =
           <<push[p].startRefs[opts.targetBranch]>>

\* What holds of the code: the parent of the new tip is the previous tip of
\* the target branch when the lookup of the target branch was answered OK,
\* and the tip of main or master, whichever lookup was answered OK, when it
\* was not.
C37_ParentIsLookedUpTip ==
  \A p \in procs :
    SucceededOnExistingBranch(p) =>
      /\ refs[opts.targetBranch] = push[p].newCommitSha
      /\ commits[push[p].newCommitSha].parents = <<push[p].startRefs[BaseBranch(p)]>>
      /\ RefLookups(p)[1] = Call("getRef", opts.targetBranch, "ok") =>
           BaseBranch(p) = opts.targetBranch

\* The target branch dev existed at the second commit; its lookup was
\* refused, main's tip became the base, and the forced update put dev on a
\* commit whose parent is main's tip: the second commit is no longer in the
\* history of dev.
C37_Witness ==
  \E p \in procs :
    /\ SucceededOnExistingBranch(p) /\ opts.targetBranch = "dev"
    /\ push[p].startRefs["dev"] = 2 /\ push[p].startRefs["main"] = 1
    /\ RefLookups(p) = <<Call("getRef", "dev", "notok"), Call("getRef", "main", "ok")>>
    /\ commits[refs["dev"]].parents = <<1>>
    /\ LastCall(p) = Call("updateRef", "dev", "ok")


\* ------------------------------------------------- nothing to upload

NoFilesMsg == <<"No files to upload">>

\* The step is the answer to process p's lookup of the base commit, after
\* which the workspace is enumerated, and the workspace holds no file that
\* the enumeration keeps.
EnumeratesNothing(p) ==
  /\ entry = "api" /\ pc[p] = "getCommit"
  /\ Len(calls'[p]) = Len(calls[p]) + 1
  /\ calls'[p][Len(calls'[p])] = Call("getCommit", "", "ok")
  /\ fs[tempDir[p]].exists
  /\ Publishable(fs[tempDir[p]].files) = {}

\* C38: when the enumeration of the workspace yields no file, the publish
\* returns the failure "No files to upload" at once; a publish that failed
\* so has issued no blob, tree, commit or ref call, and the refs of the
\* target are where they were when it started; the deploy reports the
\* failure.
C38_NoFilesToUpload ==
  /\ [][\A p \in procs : EnumeratesNothing(p) =>
          /\ push'[p].returned /\ ~push'[p].success
          /\ push'[p].error = NoFilesMsg
          /\ push'[p].filesToUpload = << >>
          /\ pc'[p] = "finally" /\ refs' = refs]_vars
  /\ [](\A p \in procs :
          (push[p].returned /\ push[p].error = NoFilesMsg) =>
             /\ ~WriteCallIssued(p)
             /\ LastCall(p) = Call("getCommit", "", "ok")
             /\ refs \in RefsLeftAlone(p)
             /\ ~result[p].success
             /\ result[p].error = <<"Failed to push: ">> \o NoFilesMsg)

\* A workspace that holds only a file under src/dist and a symbolic link,
\* and a file set with no entry that was written: the publish found its base
\* and failed with "No files to upload", the target branch where it was.
C38_Witness ==
  \E p \in procs :
    /\ entry = "api" /\ pc[p] = "finally" /\ cleanup[p] = ""
    /\ push[p].returned /\ push[p].error = NoFilesMsg
    /\ fs[tempDir[p]].exists
    /\ fs[tempDir[p]].files["src/dist/out.js"] = "old"
    /\ Publishable(fs[tempDir[p]].files) = {}
    /\ refs = push[p].startRefs /\ refs[opts.targetBranch] = 1


\* ------------------------------------------------ the outcome's fields

\* The onboarding link for the target repository.
OnboardingLink == <<"https://smithery.ai/new?repo=", targetOwner, "/", targetRepo>>

\* The last call of process p's deploy was a ref update or a ref creation
\* that the service answered OK.
RefWritten(p) ==
  /\ Len(Calls(p)) > 0
  /\ LastCall(p).op \in RefOps /\ LastCall(p).res = "ok"

\* C39: every outcome deployFromGit returns is consistent: it is a success
\* exactly when it carries no error, exactly when its deploymentUrl is the
\* onboarding link built from the target owner and repository, and exactly
\* when the publish's update or creation of the ref was answered OK; a
\* failure outcome has an empty deploymentUrl and a non-empty error.
C39_OutcomeConsistent ==
  \A p \in procs :
    (entry = "api" /\ pc[p] \in {"finally", "done"}) =>
      /\ ~result[p].threw
      /\ result[p].success <=> result[p].error = << >>
      /\ result[p].success <=> result[p].deploymentUrl = OnboardingLink
      /\ result[p].success <=> RefWritten(p)
      /\ result[p].success <=> (push[p].returned /\ push[p].success)
      /\ ~result[p].success =>
           /\ result[p].deploymentUrl = << >>
           /\ result[p].error # << >> /\ ~IsEmptyMsg(result[p].error)
      /\ result[p].success => refs[opts.targetBranch] = push[p].newCommitSha

\* Both kinds of outcome: a deploy that has returned the onboarding link
\* after its creation of the branch dev was answered OK.
C39_Witness ==
  \E p \in procs :
    /\ entry = "api" /\ pc[p] = "done"
    /\ result[p].success /\ result[p].error = << >>
    /\ result[p].deploymentUrl = OnboardingLink
    /\ OnboardingLink = <<"https://smithery.ai/new?repo=", "acme", "/", "widget-mcp">>
    /\ RefWritten(p) /\ LastCall(p).op = "createRef"


\* ------------------------------------------- the outcome's scratch path

\* The outcome process p's deploy returned names a scratch directory.
CarriesTempDir(p) ==
  /\ entry \in {"api", "git"} /\ pc[p] = "done" /\ result[p].tempDir # 0

\* C40 as stated: whenever the outcome deployFromGit returned carries a
\* tempDir, that directory does not exist any more.
C40_Original ==
  \A p \in procs : CarriesTempDir(p) => ~fs[result[p].tempDir].exists

\* C40: the outcome carries a tempDir exactly when it is the push-failure
\* outcome; it is the directory of the fetch, whose removal the finally block
\* has attempted before the caller receives the outcome: the directory is
\* gone unless the removal raised an error, which cleanupTempDir swallows,
\* and then the caller holds the path of a directory that still exists.
C40_TempDirCleanedUnlessRemovalFails ==
  \A p \in procs :
    (entry \in {"api", "git"} /\ pc[p] = "done") =>
      /\ result[p].tempDir # 0 <=>
           (~result[p].success /\ ~IsEmptyMsg(result[p].error)
            /\ result[p].error[1] = "Failed to push: ")
      /\ result[p].tempDir # 0 =>
           /\ result[p].tempDir = tempDir[p]
           /\ cleanup[p] \in {"removed", "failed"}
           /\ cleanup[p] = "removed" => ~fs[result[p].tempDir].exists
           /\ fs[result[p].tempDir].exists => cleanup[p] = "failed"

\* A push-failure outcome whose directory could not be removed: the caller
\* holds the path of a directory that exists, with the fetched files in it.
C40_Witness ==
  \E p \in procs :
    /\ CarriesTempDir(p) /\ entry = "api"
    /\ result[p].error = <<"Failed to push: ", "Failed to create tree: ", ErrorBody>>
    /\ cleanup[p] = "failed"
    /\ fs[result[p].tempDir].exists
    /\ fs[result[p].tempDir].files["README.md"] # NoFile

====
